---------------------------- MODULE Spec2Model ----------------------------
(***************************************************************************)
(* State-machine model of the streaming log-analysis engine                *)
(* (crates/log-analyzer, crates/log-source).                               *)
(*                                                                         *)
(* Threads of the program and how they appear here:                        *)
(*   - file source runners (FileSource::run), one per spawned runner;      *)
(*   - the consumer thread (LogService::new);                              *)
(*   - the caller of the facade (the UI thread): toggle_filter,            *)
(*     add_search, toggle_source;                                          *)
(*   - the "Toggle filter" replay thread and the "Search" worker thread.   *)
(* A step of a thread is one store operation (one lock acquisition) or one *)
(* channel operation, so every interleaving the locks allow is explored.   *)
(*                                                                         *)
(* Strings are sequences of one-character strings.                         *)
(***************************************************************************)
EXTENDS Naturals, Sequences, FiniteSets, TLC

(***************************************************************************)
(* Bounds of the model.                                                    *)
(***************************************************************************)
\* lines a file may hold
MaxFileLen == 3
\* toggle_filter calls explored
MaxToggles == 1
\* add_search calls explored
MaxSearches == 2
\* toggle_source calls explored
MaxSourceToggles == 4
\* runner threads that may be spawned for one source
MaxRunners == 3
\* filters in the list given to a call of apply_filters on its own
MaxFilters == 2
\* largest index of a record in the logs handed to the window queries
MaxIndex == 4
\* add_format and format-resolution calls made on the format store
MaxFormatCalls == 3
\* largest ordinal handed to apply_format on its own
MaxOrdinal == 11
\* add_lines and extract_lines calls made on the log store on its own
MaxStoreCalls == 4
\* largest length the source of a lazy window grows to
MaxSourceLen == 14
\* capacity of the raw-line queue (flume::bounded(1_000_000) in the program)
QueueCap == 2
\* num_cpus::get()
NumCpus == 2
\* per-batch line cap of the file runner (1_000_000 in the program)
Capacity == 3
\* window of the lazy table (1000 in the program) and the step by which it
\* slides (100 in the program)
CAPACITY == 10
ROOM == 2

(***************************************************************************)
(* Strings and numbers                                                     *)
(***************************************************************************)
\* F applied to the value of v: a let-binding whose value is computed once
With(v, F(_)) == CHOOSE r \in {F(x) : x \in {v}} : TRUE

Digits == <<"0", "1", "2", "3", "4", "5", "6", "7", "8", "9">>

RECURSIVE to_string(_)
\* usize::to_string: canonical decimal text
to_string(n) ==
    IF n < 10 THEN <<Digits[n + 1]>>
    ELSE to_string(n \div 10) \o <<Digits[(n % 10) + 1]>>

DigitValue(c) == CHOOSE d \in 0..9 : Digits[d + 1] = c

IsDigit(c) == \E d \in 0..9 : Digits[d + 1] = c

RECURSIVE ParseDigits(_, _)
ParseDigits(s, acc) ==
    IF s = <<>> THEN acc
    ELSE ParseDigits(Tail(s), acc * 10 + DigitValue(Head(s)))

\* str::parse::<usize>: Err on an empty or non-digit string
parse_usize(s) ==
    IF s = <<>> \/ \E i \in 1..Len(s) : ~IsDigit(s[i])
    THEN [ok |-> FALSE, val |-> 0]
    ELSE [ok |-> TRUE, val |-> ParseDigits(s, 0)]

Min(a, b) == IF a < b THEN a ELSE b
Max(a, b) == IF a > b THEN a ELSE b

(***************************************************************************)
(* Regular expressions.  Two families of patterns are modelled:            *)
(*   - a literal text (no metacharacter): matches where the text occurs;   *)
(*     a text holding "(" stands for a pattern that does not compile;      *)
(*   - WordRest: a named group of word characters, a space, and a named    *)
(*     group taking the rest of the line;                                  *)
(*   - Word: a named group of word characters;                             *)
(*   - NestedWord: that group inside another named group.                  *)
(***************************************************************************)
WordRest == <<"(?P<SEVERITY>\\w+) (?P<PAYLOAD>.*)">>

Word == <<"(?P<WORD>\\w+)">>

NestedWord == <<"(?P<OUTER>(?P<WORD>\\w+))">>

\* Regex::new(p).is_ok()
Regex_new_ok(p) == p \in {WordRest, Word, NestedWord} \/ \A i \in 1..Len(p) : p[i] # "("

IsWordChar(c) == c # " "

\* the leftmost position where a maximal run of word characters starts that
\* is followed by a space; 0 when there is none
WordRestStart(s) ==
    LET ok(p) == /\ IsWordChar(s[p])
                 /\ \E q \in p..Len(s) - 1 :
                       /\ \A k \in p..q : IsWordChar(s[k])
                       /\ s[q + 1] = " "
        starts == {p \in 1..Len(s) : ok(p)}
    IN IF starts = {} THEN 0
       ELSE CHOOSE p \in starts : \A r \in starts : p <= r

\* end of the run of word characters starting at p
WordRunEnd(s, p) ==
    CHOOSE q \in p..Len(s) :
        /\ \A k \in p..q : IsWordChar(s[k])
        /\ (q = Len(s) \/ ~IsWordChar(s[q + 1]))

\* Regex::is_match: an unanchored search
Regex_is_match(re, s) ==
    IF re = WordRest THEN WordRestStart(s) # 0
    ELSE IF re \in {Word, NestedWord} THEN \E i \in 1..Len(s) : IsWordChar(s[i])
    ELSE \E i \in 1..(Len(s) + 1) :
            /\ i + Len(re) - 1 <= Len(s)
            /\ SubSeq(s, i, i + Len(re) - 1) = re

GroupNames == {"DATE", "TIMESTAMP", "APP", "SEVERITY", "FUNCTION", "PAYLOAD"}

\* Regex::captures followed by Captures::name for the recognised groups:
\* whether the line matches and, per group, its text ("" when absent)
Regex_captures(re, s) ==
    LET none == [g \in GroupNames |-> <<>>]
    IN IF ~Regex_is_match(re, s) THEN [matched |-> FALSE, name |-> none]
       ELSE IF re = WordRest
            THEN LET p == WordRestStart(s)
                     q == WordRunEnd(s, p)
                 IN [matched |-> TRUE,
                     name |-> [none EXCEPT !["SEVERITY"] = SubSeq(s, p, q),
                                           !["PAYLOAD"] = SubSeq(s, q + 2, Len(s))]]
            ELSE [matched |-> TRUE, name |-> none]

\* the leftmost position of a word character (there is one)
WordStart(s) ==
    CHOOSE p \in 1..Len(s) : IsWordChar(s[p]) /\ \A r \in 1..(p - 1) : ~IsWordChar(s[r])

\* Regex::captures of a text that matches, then Regex::capture_names with
\* Captures::name: the named groups that took part in the first match, in
\* the order of the pattern, each with Match::start and Match::end (byte
\* offsets from 0, the end excluded)
Regex_named_captures(re, s) ==
    IF re = WordRest
    THEN LET p == WordRestStart(s)
             q == WordRunEnd(s, p)
         IN <<[group |-> "SEVERITY", start |-> p - 1, end |-> q],
              [group |-> "PAYLOAD", start |-> q + 1, end |-> Len(s)]>>
    ELSE IF re = Word
         THEN LET p == WordStart(s)
              IN <<[group |-> "WORD", start |-> p - 1, end |-> WordRunEnd(s, p)]>>
         ELSE IF re = NestedWord
              THEN LET p == WordStart(s)
                   IN <<[group |-> "OUTER", start |-> p - 1, end |-> WordRunEnd(s, p)],
                        [group |-> "WORD", start |-> p - 1, end |-> WordRunEnd(s, p)]>>
              ELSE <<>>

(***************************************************************************)
(* LogLine, Filter, LogFilter                                              *)
(***************************************************************************)
\* Option<(u8, u8, u8)>::None
NoColor == <<>>

EmptyLine ==
    [log |-> <<>>, index |-> <<>>, date |-> <<>>, timestamp |-> <<>>,
     app |-> <<>>, severity |-> <<>>, function |-> <<>>, payload |-> <<>>,
     color |-> NoColor]

\* LogLine::get of a key that exists (the keys of LogLine::columns)
LogLine_get(l, key) ==
    CASE key = "Log" -> l.log
      [] key = "Index" -> l.index
      [] key = "Date" -> l.date
      [] key = "Timestamp" -> l.timestamp
      [] key = "App" -> l.app
      [] key = "Severity" -> l.severity
      [] key = "Function" -> l.function
      [] key = "Payload" -> l.payload

\* the keys of LogLine::values, in its order (Index is not among them)
ValueKeys == <<"Log", "Date", "Timestamp", "App", "Severity", "Function", "Payload">>

\* the texts a search looks at: (&LogLine).into_iter()
LogLine_into_iter(l) ==
    <<l.log, l.date, l.timestamp, l.app, l.severity, l.function, l.payload>>

\* Filter::get_filters: the (key, regex) pairs whose pattern compiles
Filter_get_filters(f) ==
    SelectSeq([i \in 1..Len(ValueKeys) |->
                 [key |-> ValueKeys[i], re |-> LogLine_get(f.filter, ValueKeys[i])]],
              LAMBDA kv : Regex_new_ok(kv.re))

\* impl From<Filter> for LogFilter
LogFilter_from(f) ==
    [action |-> f.action, filters |-> Filter_get_filters(f), color |-> f.filter.color]

(***************************************************************************)
(* domain::apply_format                                                    *)
(***************************************************************************)
NoFormat == <<>>

\* default_log_line(line, index)
default_log_line(line, index) ==
    [EmptyLine EXCEPT !.index = to_string(index), !.payload = line]

\* an apply_format that leaves the whole line in the payload of a match
apply_format_fields_whole(format, line, index) ==
    IF format = NoFormat THEN default_log_line(line, index)
    ELSE With(Regex_captures(format, line), LAMBDA c :
            IF ~c.matched THEN default_log_line(line, index)
            ELSE [default_log_line(line, index) EXCEPT
                     !.date = c.name["DATE"], !.timestamp = c.name["TIMESTAMP"],
                     !.app = c.name["APP"], !.severity = c.name["SEVERITY"],
                     !.function = c.name["FUNCTION"]])

\* apply_format(format, line, index) of apply_format.rs: every field but log;
\* format is NoFormat for None
apply_format_fields(format, line, index) ==
    IF format = NoFormat THEN default_log_line(line, index)
    ELSE With(Regex_captures(format, line), LAMBDA c :
            IF ~c.matched THEN default_log_line(line, index)
            ELSE [log |-> <<>>,
                  index |-> to_string(index),
                  date |-> c.name["DATE"],
                  timestamp |-> c.name["TIMESTAMP"],
                  app |-> c.name["APP"],
                  severity |-> c.name["SEVERITY"],
                  function |-> c.name["FUNCTION"],
                  payload |-> c.name["PAYLOAD"],
                  color |-> NoColor])

\* apply_format(format, path, line, index) as LogService::apply_format calls
\* it: the record above with the source id stored in the log field
apply_format(format, path, line, index) ==
    [apply_format_fields(format, line, index) EXCEPT !.log = path]

(***************************************************************************)
(* domain::apply_filters                                                   *)
(***************************************************************************)
RECURSIVE filter_line_scan(_, _, _)
\* the loop of filter_line: is_match after the (key, regex) pairs from i on
filter_line_scan(filters, l, i) ==
    IF i > Len(filters) THEN TRUE
    ELSE IF ~Regex_is_match(filters[i].re, LogLine_get(l, filters[i].key)) THEN FALSE
         ELSE filter_line_scan(filters, l, i + 1)

\* a filter_line whose loop does not stop at a field that fails: the last
\* field decides
filter_line_last(filtering, l) ==
    LET n == Len(filtering.filters)
        is_match == n > 0 /\ Regex_is_match(filtering.filters[n].re,
                                            LogLine_get(l, filtering.filters[n].key))
    IN [is_match |-> is_match,
        line |-> IF is_match THEN [l EXCEPT !.color = filtering.color] ELSE l]

\* filter_line: whether the filter matches, and the line with its color set
\* on a match
filter_line(filtering, l) ==
    LET is_match == Len(filtering.filters) > 0 /\ filter_line_scan(filtering.filters, l, 1)
    IN [is_match |-> is_match,
        line |-> IF is_match THEN [l EXCEPT !.color = filtering.color] ELSE l]

RECURSIVE apply_markers(_, _, _)
\* for marker_filter in marker_filters { filter_line(marker_filter, line) }
apply_markers(markers, l, i) ==
    IF i > Len(markers) THEN l
    ELSE With(filter_line(markers[i], l).line,
              LAMBDA marked : apply_markers(markers, marked, i + 1))

RECURSIVE first_match(_, _, _)
\* index of the first filter of fs, from i on, that matches l; 0 when none
first_match(fs, l, i) ==
    IF i > Len(fs) THEN 0
    ELSE IF filter_line(fs[i], l).is_match THEN i
         ELSE first_match(fs, l, i + 1)

\* a filter pass that keeps a line only when an include filter matches it
include_only_loops(include_filters, exclude_filters, marker_filters, l) ==
    With(first_match(include_filters, l, 1), LAMBDA inc :
       IF inc # 0
       THEN [kept |-> TRUE,
             line |-> With(filter_line(include_filters[inc], l).line,
                           LAMBDA included : apply_markers(marker_filters, included, 1))]
       ELSE [kept |-> FALSE, line |-> l])

\* a filter pass that looks at the exclude filters first
exclude_first_loops(include_filters, exclude_filters, marker_filters, l) ==
    IF first_match(exclude_filters, l, 1) # 0
    THEN [kept |-> FALSE, line |-> l]
    ELSE With(first_match(include_filters, l, 1), LAMBDA inc :
            IF inc # 0
            THEN [kept |-> TRUE,
                  line |-> With(filter_line(include_filters[inc], l).line,
                                LAMBDA included :
                                    apply_markers(marker_filters, included, 1))]
            ELSE IF Len(include_filters) = 0
                 THEN [kept |-> TRUE, line |-> apply_markers(marker_filters, l, 1)]
                 ELSE [kept |-> FALSE, line |-> l])

\* the body of apply_filters once the three iterators are made: kept is
\* FALSE for None
apply_filters_loops(include_filters, exclude_filters, marker_filters, l) ==
    With(first_match(include_filters, l, 1), LAMBDA inc :
       IF inc # 0
       THEN [kept |-> TRUE,
             line |-> With(filter_line(include_filters[inc], l).line,
                           LAMBDA included : apply_markers(marker_filters, included, 1))]
       ELSE IF first_match(exclude_filters, l, 1) # 0
            THEN [kept |-> FALSE, line |-> l]
            ELSE IF Len(include_filters) = 0
                 THEN [kept |-> TRUE, line |-> apply_markers(marker_filters, l, 1)]
                 ELSE [kept |-> FALSE, line |-> l])

\* apply_filters(filters, log_line)
apply_filters(filters, l) ==
    CHOOSE r \in {apply_filters_loops(inc, exc, mrk, log_line) :
                     inc \in {SelectSeq(filters, LAMBDA f : f.action = "INCLUDE")},
                     exc \in {SelectSeq(filters, LAMBDA f : f.action = "EXCLUDE")},
                     mrk \in {SelectSeq(filters, LAMBDA f : f.action = "MARKER")},
                     log_line \in {l}} : TRUE

(***************************************************************************)
(* domain::apply_search                                                    *)
(***************************************************************************)
\* apply_search(search, log_line)
apply_search(search, l) ==
    \E i \in 1..Len(LogLine_into_iter(l)) :
        Regex_is_match(search, LogLine_into_iter(l)[i])

(***************************************************************************)
(* The configuration the model runs on: two file sources, one format and   *)
(* three filters registered by add_log, add_format and add_filter.         *)
(***************************************************************************)
SrcA == <<"A">>
SrcB == <<"B">>
Sources == {SrcA, SrcB}

\* iteration order of the log store's map of sources
SourceOrder == <<SrcA, SrcB>>

\* the lines the files are made of, repeated as the files grow
LinePool(s) ==
    IF s = SrcA
    THEN << <<"e", " ", "x">>, <<"w", " ", "y">>, <<"e", " ", "y">> >>
    ELSE << <<"x">>, <<"y">> >>

LineAt(s, i) == LinePool(s)[((i - 1) % Len(LinePool(s))) + 1]

\* the first n lines of the file of s
FileLines(s, n) == [i \in 1..n |-> LineAt(s, i)]

\* how many lines the file of s may grow to
FileMax(s) == IF s = SrcA THEN MaxFileLen ELSE 1

\* LogStore::get_format: the alias bound by add_log, if any
LogStore_get_format(s) == [some |-> s = SrcA, alias |-> "sev"]

\* ProcessingStore::get_format
ProcessingStore_get_format(alias) ==
    [some |-> alias = "sev", regex |-> WordRest]

FilterIds == {"exc", "inc", "mrk"}

\* iteration order of the processing store's map of filters
FilterOrder == <<"exc", "inc", "mrk">>

\* the filters given to add_filter
FilterDefs ==
    [exc |-> [alias |-> "exc", action |-> "EXCLUDE",
              filter |-> [EmptyLine EXCEPT !.payload = <<"y">>]],
     inc |-> [alias |-> "inc", action |-> "INCLUDE",
              filter |-> [EmptyLine EXCEPT !.severity = <<"e">>, !.color = <<1, 2, 3>>]],
     mrk |-> [alias |-> "mrk", action |-> "MARKER",
              filter |-> [EmptyLine EXCEPT !.payload = <<"x">>, !.color = <<4, 5, 6>>]]]

\* the patterns given to add_search; the last does not compile
Queries == {<<"x">>, <<"y">>, <<"(">>}

(***************************************************************************)
(* State                                                                   *)
(***************************************************************************)
VARIABLES
    fileLen,          \* lines each file holds
    read_lines,       \* FileSource.read_lines
    src_enabled,      \* FileSource.enabled (the cancellation flag)
    runners,          \* the runner threads of each source
    queue,            \* the channel of (path, lines) batches
    registered,       \* the sources add_log has registered
    raw_lines,        \* InMemmoryLogStore.raw_lines
    st_enabled,       \* InMemmoryLogStore.enabled
    filters_enabled,  \* enabled flag of InMemmoryProcessingStore.filters
    log,              \* InMemmoryAnalysisStore.log
    search_log,       \* InMemmoryAnalysisStore.search_log
    search_query,     \* InMemmoryAnalysisStore.search_query
    cons,             \* the consumer thread
    ui,               \* the thread calling the facade
    toggles,          \* the "Toggle filter" threads, in spawn order
    searches,         \* the "Search" threads, in spawn order
    src_toggles,      \* toggle_source calls made
    h_sent,           \* history: the lines the runners of a source have sent
    h_clean,          \* history: no runner has sent a batch since the last
                      \* toggle_filter call
    h_search_calls,   \* history: add_search calls made
    h_base_len,       \* history: length of the filtered log at the first
                      \* add_search call
    call              \* a call of a function of the domain on its own

vars == <<fileLen, read_lines, src_enabled, runners, queue, registered, raw_lines,
          st_enabled, filters_enabled, log, search_log, search_query, cons, ui,
          toggles, searches, src_toggles, h_sent, h_clean, h_search_calls,
          h_base_len, call>>

NoRunner == [pc |-> "exited", pos |-> 0, v |-> <<>>]

IdleConsumer ==
    [pc |-> "idle", path |-> <<>>, lines |-> <<>>, elements |-> <<>>, results |-> <<>>,
     next |-> 0, pre_len |-> 0, post_len |-> 0]

IdleUi == [pc |-> "idle", arg |-> <<>>]

\* Option<String>::None for the search query
NoQuery == [some |-> FALSE, q |-> <<>>]

\* the state once the given sources have been registered by add_log (which
\* spawns a runner for each), the format and the filters added; len is the
\* number of lines each file holds by then
InitPipeline(srcs, len) ==
    /\ fileLen = len
    /\ read_lines = [s \in Sources |-> 0]
    /\ src_enabled = [s \in Sources |-> TRUE]
    /\ runners = [s \in Sources |->
                    [r \in 1..MaxRunners |->
                       IF r = 1 /\ s \in srcs THEN [NoRunner EXCEPT !.pc = "check"]
                       ELSE NoRunner]]
    /\ queue = <<>>
    /\ registered = srcs
    /\ raw_lines = [s \in Sources |-> [present |-> FALSE, lines |-> <<>>]]
    /\ st_enabled = [s \in Sources |-> s \in srcs]
    /\ filters_enabled = [f \in FilterIds |-> FALSE]
    /\ log = <<>>
    /\ search_log = <<>>
    /\ search_query = NoQuery
    /\ cons = IdleConsumer
    /\ ui = IdleUi
    /\ toggles = <<>>
    /\ searches = <<>>
    /\ src_toggles = 0
    /\ h_sent = [s \in Sources |-> <<>>]
    /\ h_clean = FALSE
    /\ h_search_calls = 0
    /\ h_base_len = 0

\* no function of the domain is called on its own
NoCall == [pc |-> "none"]

InitFiles(srcs, len) == InitPipeline(srcs, len) /\ call = NoCall

\* the files are empty when the sources are registered
InitWith(srcs) == InitFiles(srcs, [s \in Sources |-> 0])

\* one source registered
Init == InitWith({SrcA})

\* one source registered, whose file is already written
InitWritten == InitFiles({SrcA}, [s \in Sources |-> IF s = SrcA THEN FileMax(s) ELSE 0])

\* both sources registered
InitTwoSources == InitWith(Sources)

(***************************************************************************)
(* The event channel (tokio broadcast).  Every live "Toggle filter" thread *)
(* holds a receiver; an event sent is appended to each receiver's inbox.   *)
(***************************************************************************)
Event(type, from, to) == [type |-> type, from |-> from, to |-> to]

\* broadcast::Sender::send of the events evs, on the thread records tg
Deliver(tg, evs) ==
    [t \in DOMAIN tg |->
        IF tg[t].pc \in {"done", "panicked"} THEN tg[t]
        ELSE [tg[t] EXCEPT !.inbox = @ \o evs]]

(***************************************************************************)
(* The environment: a line is appended to a file                           *)
(***************************************************************************)
AppendLine(s) ==
    /\ s \in registered
    /\ fileLen[s] < FileMax(s)
    /\ fileLen' = [fileLen EXCEPT ![s] = @ + 1]
    /\ UNCHANGED <<read_lines, src_enabled, runners, queue, registered, call, raw_lines,
                   st_enabled, filters_enabled, log, search_log, search_query, cons,
                   ui, toggles, searches, src_toggles, h_sent, h_clean, h_search_calls,
                   h_base_len>>

(***************************************************************************)
(* FileSource::run, one action per step of a runner r of source s          *)
(***************************************************************************)
RunnerUnchanged ==
    UNCHANGED <<fileLen, registered, call, raw_lines, st_enabled, filters_enabled, log,
                search_log, search_query, cons, ui, toggles, searches, src_toggles,
                h_search_calls, h_base_len>>

\* while self.enabled.load(): leave the loop when the flag is false
R_Check(s, r) ==
    /\ runners[s][r].pc = "check"
    /\ runners' = [runners EXCEPT ![s][r].pc =
                      IF src_enabled[s] THEN "open" ELSE "restore"]
    /\ UNCHANGED <<read_lines, src_enabled, queue, h_sent, h_clean>>
    /\ RunnerUnchanged

\* File::open and reader.lines().skip(read_lines)
R_Open(s, r) ==
    /\ runners[s][r].pc = "open"
    /\ runners' = [runners EXCEPT ![s][r] =
                      [pc |-> "read", pos |-> read_lines[s], v |-> <<>>]]
    /\ UNCHANGED <<read_lines, src_enabled, queue, h_sent, h_clean>>
    /\ RunnerUnchanged

\* lines.next() yields a line: push it; a full batch is sent before the
\* counter is incremented
R_ReadLine(s, r) ==
    /\ runners[s][r].pc = "read"
    /\ runners[s][r].pos < fileLen[s]
    /\ LET v2 == Append(runners[s][r].v, LineAt(s, runners[s][r].pos + 1))
           full == Len(v2) >= Capacity - 1
       IN /\ runners' = [runners EXCEPT ![s][r] =
                            [pc |-> IF full THEN "send_full" ELSE "read",
                             pos |-> @.pos + 1, v |-> v2]]
          /\ read_lines' = IF full THEN read_lines
                           ELSE [read_lines EXCEPT ![s] = @ + 1]
    /\ UNCHANGED <<src_enabled, queue, h_sent, h_clean>>
    /\ RunnerUnchanged

\* sender.send_async((path, v)) of a full batch, then *read_lines += 1
R_SendFull(s, r) ==
    /\ runners[s][r].pc = "send_full"
    /\ Len(queue) < QueueCap
    /\ queue' = Append(queue, [path |-> s, lines |-> runners[s][r].v])
    /\ h_sent' = [h_sent EXCEPT ![s] = @ \o runners[s][r].v]
    /\ h_clean' = FALSE
    /\ runners' = [runners EXCEPT ![s][r].pc = "read", ![s][r].v = <<>>]
    /\ read_lines' = [read_lines EXCEPT ![s] = @ + 1]
    /\ UNCHANGED src_enabled
    /\ RunnerUnchanged

\* lines.next() yields None: sender.send((path, v)) of the rest (which may
\* be empty), then the sleep before the next round
R_SendRest(s, r) ==
    /\ runners[s][r].pc = "read"
    /\ runners[s][r].pos >= fileLen[s]
    /\ Len(queue) < QueueCap
    /\ queue' = Append(queue, [path |-> s, lines |-> runners[s][r].v])
    /\ h_sent' = [h_sent EXCEPT ![s] = @ \o runners[s][r].v]
    /\ h_clean' = FALSE
    /\ runners' = [runners EXCEPT ![s][r] = [pc |-> "check", pos |-> 0, v |-> <<>>]]
    /\ UNCHANGED <<read_lines, src_enabled>>
    /\ RunnerUnchanged

\* self.enabled.store(true) after the loop
R_Restore(s, r) ==
    /\ runners[s][r].pc = "restore"
    /\ src_enabled' = [src_enabled EXCEPT ![s] = TRUE]
    /\ runners' = [runners EXCEPT ![s][r] = NoRunner]
    /\ UNCHANGED <<read_lines, queue, h_sent, h_clean>>
    /\ RunnerUnchanged

\* the loop of run, which a runner never leaves while nobody stops it
RunnerLoop(s, r) ==
    \/ R_Check(s, r)
    \/ R_Open(s, r)
    \/ R_ReadLine(s, r)
    \/ R_SendFull(s, r)
    \/ R_SendRest(s, r)

Runner(s, r) ==
    \/ RunnerLoop(s, r)
    \/ R_Restore(s, r)

(***************************************************************************)
(* InMemmoryLogStore                                                       *)
(***************************************************************************)
\* add_lines: the buffer (created on demand) with the lines appended
LogStore_add_lines(rl, log_id, lines) ==
    [rl EXCEPT ![log_id] = [present |-> TRUE, lines |-> @.lines \o lines]]

\* a store that numbers the lines of every batch from 0
RangeFromZero(rl, log_id, lines) ==
    [start |-> 0, end |-> Len(lines)]

\* the range add_lines returns: current_len..new_len
LogStore_add_lines_range(rl, log_id, lines) ==
    [start |-> Len(rl[log_id].lines), end |-> Len(rl[log_id].lines) + Len(lines)]

\* get_logs, filtered on the enabled flag, in the map's iteration order
EnabledLogs ==
    SelectSeq(SourceOrder, LAMBDA s : s \in registered /\ st_enabled[s])

(***************************************************************************)
(* LogService: the per-chunk stages of the consumer                        *)
(***************************************************************************)
\* LogService::apply_format on a chunk of (line, index) pairs
LogService_apply_format(format, path, line_index) ==
    LET format_regex ==
            IF format.some /\ ProcessingStore_get_format(format.alias).some
            THEN ProcessingStore_get_format(format.alias).regex
            ELSE NoFormat
    IN [i \in 1..Len(line_index) |->
           apply_format(format_regex, path, line_index[i].line, line_index[i].index)]

\* the enabled filters of ProcessingStore::get_filters, as LogFilters
EnabledFilters(enabled) ==
    LET ids == SelectSeq(FilterOrder, LAMBDA f : enabled[f])
    IN [i \in 1..Len(ids) |-> LogFilter_from(FilterDefs[ids[i]])]

RECURSIVE KeepFiltered(_, _)
KeepFiltered(filters, lines) ==
    IF lines = <<>> THEN <<>>
    ELSE With(apply_filters(filters, Head(lines)), LAMBDA res :
              (IF res.kept THEN <<res.line>> ELSE <<>>)
              \o KeepFiltered(filters, Tail(lines)))

\* LogService::apply_filters with the filters enabled at the time of the call
LogService_apply_filters(enabled, lines) ==
    With(EnabledFilters(enabled), LAMBDA filters : KeepFiltered(filters, lines))

\* LogService::apply_search with the query stored at the time of the call
LogService_apply_search(query, lines) ==
    IF query.some /\ Regex_new_ok(query.q)
    THEN SelectSeq(lines, LAMBDA l : apply_search(query.q, l))
    ELSE <<>>

\* chunk_size.max(num_cpus) with chunk_size = lines.len() / num_cpus
ChunkSize(n) == Max(n \div NumCpus, NumCpus)

\* number of chunks slice::chunks yields
NumChunks(n) == (n + ChunkSize(n) - 1) \div ChunkSize(n)

\* the k-th chunk
Chunk(elements, k) ==
    SubSeq(elements, (k - 1) * ChunkSize(Len(elements)) + 1,
           Min(k * ChunkSize(Len(elements)), Len(elements)))

NoResult == [done |-> FALSE, formatted |-> <<>>, filtered |-> <<>>, search |-> <<>>]

(***************************************************************************)
(* The consumer thread (LogService::new)                                   *)
(***************************************************************************)
ConsumerUnchanged ==
    UNCHANGED <<fileLen, read_lines, src_enabled, runners, registered, call, st_enabled,
                filters_enabled, search_query, ui, searches, src_toggles, h_sent,
                h_clean, h_search_calls, h_base_len>>

\* receiver.recv(): the consumer takes the next batch off the queue
C_Recv ==
    /\ cons.pc = "idle"
    /\ queue # <<>>
    /\ queue' = Tail(queue)
    /\ cons' = [IdleConsumer EXCEPT !.pc = "store", !.path = Head(queue).path,
                                    !.lines = Head(queue).lines]
    /\ UNCHANGED <<raw_lines, log, search_log, toggles>>
    /\ ConsumerUnchanged

\* process_raw_lines, and for a batch that is not empty the pairing of
\* lines and indexes and the Processing event
C_Store ==
    /\ cons.pc = "store"
    /\ LET path == cons.path
           lines == cons.lines
           indexes == LogStore_add_lines_range(raw_lines, path, lines)
           elements == [i \in 1..Len(lines) |->
                           [line |-> lines[i], index |-> indexes.start + i - 1]]
       IN /\ raw_lines' = LogStore_add_lines(raw_lines, path, lines)
          /\ IF lines = <<>>
             THEN /\ cons' = IdleConsumer
                  /\ toggles' = toggles
             ELSE /\ cons' = [pc |-> "map", path |-> path, lines |-> <<>>,
                              elements |-> elements,
                              results |-> [k \in 1..NumChunks(Len(lines)) |-> NoResult],
                              next |-> 1,
                              pre_len |-> Len(raw_lines[path].lines),
                              post_len |-> Len(raw_lines'[path].lines)]
                  /\ toggles' = Deliver(toggles,
                         <<Event("Processing", elements[1].index,
                                 elements[Len(elements)].index)>>)
    /\ UNCHANGED <<queue, log, search_log>>
    /\ ConsumerUnchanged

\* one worker of parallel_map_scoped maps chunk k: format, filter, search
C_Map(k) ==
    /\ cons.pc = "map"
    /\ k \in DOMAIN cons.results
    /\ ~cons.results[k].done
    /\ \E lines \in {LogService_apply_format(LogStore_get_format(cons.path), cons.path,
                                              Chunk(cons.elements, k))} :
       \E filtered \in {LogService_apply_filters(filters_enabled, lines)} :
       \E search \in {LogService_apply_search(search_query, filtered)} :
       \E res \in {[cons.results EXCEPT ![k] =
                      [done |-> TRUE, formatted |-> lines, filtered |-> filtered,
                       search |-> search]]} :
          cons' = [cons EXCEPT !.results = res,
                               !.pc = IF \A j \in DOMAIN res : res[j].done
                                      THEN "add_lines" ELSE "map"]
    /\ UNCHANGED <<queue, raw_lines, log, search_log, toggles>>
    /\ ConsumerUnchanged

\* a consumer that stores the results of the chunks from the last to the first
C_AddLinesFromLast ==
    /\ cons.pc = "add_lines"
    /\ log' = log \o cons.results[Len(cons.results) - cons.next + 1].filtered
    /\ cons' = [cons EXCEPT !.pc = "add_search_lines"]
    /\ UNCHANGED <<queue, raw_lines, search_log, toggles>>
    /\ ConsumerUnchanged

\* analysis_store.add_lines(&filtered) of the next chunk in order
C_AddLines ==
    /\ cons.pc = "add_lines"
    /\ log' = log \o cons.results[cons.next].filtered
    /\ cons' = [cons EXCEPT !.pc = "add_search_lines"]
    /\ UNCHANGED <<queue, raw_lines, search_log, toggles>>
    /\ ConsumerUnchanged

\* analysis_store.add_search_lines(&search) of the same chunk
C_AddSearchLines ==
    /\ cons.pc = "add_search_lines"
    /\ search_log' = search_log \o cons.results[cons.next].search
    /\ cons' = [cons EXCEPT !.next = @ + 1,
                            !.pc = IF cons.next = Len(cons.results) THEN "notify"
                                   ELSE "add_lines"]
    /\ UNCHANGED <<queue, raw_lines, log, toggles>>
    /\ ConsumerUnchanged

\* a consumer that notifies of the search lines first
C_NotifySearchFirst ==
    /\ cons.pc = "notify"
    /\ LET first == cons.elements[1].index
           last == cons.elements[Len(cons.elements)].index
       IN toggles' = Deliver(toggles, <<Event("NewSearchLines", first, last),
                                        Event("NewLines", first, last)>>)
    /\ cons' = IdleConsumer
    /\ UNCHANGED <<queue, raw_lines, log, search_log>>
    /\ ConsumerUnchanged

\* the NewLines and NewSearchLines events
C_Notify ==
    /\ cons.pc = "notify"
    /\ LET first == cons.elements[1].index
           last == cons.elements[Len(cons.elements)].index
       IN toggles' = Deliver(toggles, <<Event("NewLines", first, last),
                                        Event("NewSearchLines", first, last)>>)
    /\ cons' = IdleConsumer
    /\ UNCHANGED <<queue, raw_lines, log, search_log>>
    /\ ConsumerUnchanged

Consumer ==
    \/ C_Recv
    \/ C_Store
    \/ \E k \in DOMAIN cons.results : C_Map(k)
    \/ C_AddLines
    \/ C_AddSearchLines
    \/ C_Notify

(***************************************************************************)
(* LogService::toggle_filter: the caller's part, then the replay thread    *)
(***************************************************************************)
\* processing_store.toggle_filter(id) and analysis_store.reset_log()
TF_Call(id) ==
    /\ ui.pc = "idle"
    /\ Len(toggles) < MaxToggles
    /\ filters_enabled' = [filters_enabled EXCEPT ![id] = ~@]
    /\ log' = <<>>
    /\ ui' = [pc |-> "toggle_filter", arg |-> <<>>]
    /\ h_clean' = TRUE
    /\ UNCHANGED <<fileLen, read_lines, src_enabled, runners, queue, registered, call,
                   raw_lines, st_enabled, search_log, search_query, cons, toggles,
                   searches, src_toggles, h_sent, h_search_calls, h_base_len>>

\* analysis_store.reset_search(), event_channel.subscribe(), the list of
\* enabled logs, and the spawn of the thread
TF_Spawn ==
    /\ ui.pc = "toggle_filter"
    /\ search_log' = <<>>
    /\ toggles' = Append(toggles,
                         [pc |-> IF EnabledLogs = <<>> THEN "done" ELSE "extract",
                          logs |-> EnabledLogs, lines |-> <<>>, inbox |-> <<>>])
    /\ ui' = IdleUi
    /\ UNCHANGED <<fileLen, read_lines, src_enabled, runners, queue, registered, call,
                   raw_lines, st_enabled, filters_enabled, log, search_query, cons,
                   searches, src_toggles, h_sent, h_clean, h_search_calls, h_base_len>>

ToggleThreadUnchanged ==
    UNCHANGED <<fileLen, read_lines, src_enabled, runners, registered, call, st_enabled,
                filters_enabled, log, search_log, search_query, cons, ui, searches,
                src_toggles, h_sent, h_clean, h_search_calls, h_base_len>>

\* the thread record once the current log is finished
NextLog(th) ==
    [th EXCEPT !.logs = Tail(@), !.lines = <<>>,
               !.pc = IF Len(th.logs) = 1 THEN "done" ELSE "extract"]

\* log_store.extract_lines(&log): w.get_mut(log_id).unwrap() fails when the
\* source has no buffer yet; an empty batch is finished at once
TT_Extract(t) ==
    /\ t \in DOMAIN toggles
    /\ toggles[t].pc = "extract"
    /\ LET s == Head(toggles[t].logs)
           lines == raw_lines[s].lines
       IN IF ~raw_lines[s].present
          THEN /\ toggles' = [toggles EXCEPT ![t].pc = "panicked"]
               /\ raw_lines' = raw_lines
          ELSE /\ raw_lines' = [raw_lines EXCEPT ![s].lines = <<>>]
               /\ IF lines = <<>>
                  THEN toggles' = Deliver([toggles EXCEPT ![t] = NextLog(@)],
                                          <<Event("FilterFinished", 0, 0)>>)
                  ELSE toggles' = [toggles EXCEPT ![t].pc = "send", ![t].lines = lines]
    /\ UNCHANGED queue
    /\ ToggleThreadUnchanged

\* the Filtering event and sender.send((log, lines))
TT_Send(t) ==
    /\ t \in DOMAIN toggles
    /\ toggles[t].pc = "send"
    /\ Len(queue) < QueueCap
    /\ queue' = Append(queue, [path |-> Head(toggles[t].logs), lines |-> toggles[t].lines])
    /\ toggles' = Deliver([toggles EXCEPT ![t].pc = "wait"], <<Event("Filtering", 0, 0)>>)
    /\ UNCHANGED raw_lines
    /\ ToggleThreadUnchanged

\* one round of the wait loop: receiver.recv(); a NewLines event whose last
\* index is lines.len() - 1 ends the wait and FilterFinished is sent
TT_Wait(t) ==
    /\ t \in DOMAIN toggles
    /\ toggles[t].pc = "wait"
    /\ toggles[t].inbox # <<>>
    /\ LET ev == Head(toggles[t].inbox)
           th == [toggles[t] EXCEPT !.inbox = Tail(@)]
       IN IF ev.type = "NewLines" /\ ev.to = Len(th.lines) - 1
          THEN toggles' = Deliver([toggles EXCEPT ![t] = NextLog(th)],
                                  <<Event("FilterFinished", 0, 0)>>)
          ELSE toggles' = [toggles EXCEPT ![t] = th]
    /\ UNCHANGED <<queue, raw_lines>>
    /\ ToggleThreadUnchanged

ToggleThread(t) ==
    \/ TT_Extract(t)
    \/ TT_Send(t)
    \/ TT_Wait(t)

(***************************************************************************)
(* LogService::add_search: the caller's part, then the search thread       *)
(***************************************************************************)
\* an add_search that goes on with a pattern that does not compile
AS_CallAnyQuery(q) ==
    /\ ui.pc = "idle"
    /\ h_search_calls < MaxSearches
    /\ search_log' = <<>>
    /\ ui' = [pc |-> "add_search", arg |-> q]
    /\ h_search_calls' = h_search_calls + 1
    /\ h_base_len' = IF h_search_calls = 0 THEN Len(log) ELSE h_base_len
    /\ UNCHANGED <<fileLen, read_lines, src_enabled, runners, queue, registered, call,
                   raw_lines, st_enabled, filters_enabled, log, search_query, cons,
                   toggles, searches, src_toggles, h_sent, h_clean>>

\* Regex::new(regex) and analysis_store.reset_search(); a pattern that does
\* not compile ends the call here
AS_Call(q) ==
    /\ ui.pc = "idle"
    /\ h_search_calls < MaxSearches
    /\ search_log' = <<>>
    /\ ui' = IF Regex_new_ok(q) THEN [pc |-> "add_search", arg |-> q] ELSE IdleUi
    /\ h_search_calls' = h_search_calls + 1
    /\ h_base_len' = IF h_search_calls = 0 THEN Len(log) ELSE h_base_len
    /\ UNCHANGED <<fileLen, read_lines, src_enabled, runners, queue, registered, call,
                   raw_lines, st_enabled, filters_enabled, log, search_query, cons,
                   toggles, searches, src_toggles, h_sent, h_clean>>

\* analysis_store.add_search_query(regex) and the spawn of the thread
AS_Spawn ==
    /\ ui.pc = "add_search"
    /\ search_query' = [some |-> TRUE, q |-> ui.arg]
    /\ searches' = Append(searches, [pc |-> "fetch", re |-> ui.arg, snap |-> <<>>])
    /\ ui' = IdleUi
    /\ UNCHANGED <<fileLen, read_lines, src_enabled, runners, queue, registered, call,
                   raw_lines, st_enabled, filters_enabled, log, search_log, cons,
                   toggles, src_toggles, h_sent, h_clean, h_search_calls, h_base_len>>

SearchThreadUnchanged ==
    UNCHANGED <<fileLen, read_lines, src_enabled, runners, queue, registered, call,
                raw_lines, st_enabled, filters_enabled, log, search_query, cons, ui,
                src_toggles, h_sent, h_clean, h_search_calls, h_base_len>>

\* analysis_store.fetch_log(): the thread works on the log as it is now; an
\* empty log ends the thread without an event ("ended"), otherwise Searching
\* is sent and the thread is "done" once it has sent SearchFinished
ST_Fetch(t) ==
    /\ t \in DOMAIN searches
    /\ searches[t].pc = "fetch"
    /\ IF log = <<>>
       THEN /\ searches' = [searches EXCEPT ![t].pc = "ended"]
            /\ toggles' = toggles
       ELSE /\ searches' = [searches EXCEPT ![t].pc = "append", ![t].snap = log]
            /\ toggles' = Deliver(toggles, <<Event("Searching", 0, 0)>>)
    /\ UNCHANGED search_log
    /\ SearchThreadUnchanged

\* the matches of all chunks, flattened in order, are appended by
\* analysis_store.add_search_lines; then SearchFinished is sent
ST_Append(t) ==
    /\ t \in DOMAIN searches
    /\ searches[t].pc = "append"
    /\ search_log' = search_log \o
           SelectSeq(searches[t].snap, LAMBDA l : apply_search(searches[t].re, l))
    /\ searches' = [searches EXCEPT ![t] = [pc |-> "done", re |-> @.re, snap |-> <<>>]]
    /\ toggles' = Deliver(toggles, <<Event("SearchFinished", 0, 0)>>)
    /\ SearchThreadUnchanged

SearchThread(t) ==
    \/ ST_Fetch(t)
    \/ ST_Append(t)

(***************************************************************************)
(* LogService::toggle_source                                               *)
(***************************************************************************)
\* the slot a newly spawned runner thread takes
FreeSlot(s) ==
    CHOOSE r \in 1..MaxRunners :
        /\ runners[s][r].pc = "exited"
        /\ \A q \in 1..MaxRunners : runners[s][q].pc = "exited" => r <= q

\* toggle_log(id), then source.stop() for a source that was enabled and
\* run_log_source(source) for one that was disabled
ToggleSource(s) ==
    /\ ui.pc = "idle"
    /\ s \in registered
    /\ src_toggles < MaxSourceToggles
    /\ src_toggles' = src_toggles + 1
    /\ st_enabled' = [st_enabled EXCEPT ![s] = ~@]
    /\ IF st_enabled[s]
       THEN /\ src_enabled' = [src_enabled EXCEPT ![s] = FALSE]
            /\ runners' = runners
       ELSE /\ \E r \in 1..MaxRunners : runners[s][r].pc = "exited"
            /\ runners' = [runners EXCEPT ![s][FreeSlot(s)].pc = "check"]
            /\ src_enabled' = src_enabled
    /\ UNCHANGED <<fileLen, read_lines, queue, registered, call, raw_lines, filters_enabled,
                   log, search_log, search_query, cons, ui, toggles, searches, h_sent,
                   h_clean, h_search_calls, h_base_len>>

(***************************************************************************)
(* Specifications                                                          *)
(***************************************************************************)
\* the runners where no source is ever stopped
Runners == \E s \in Sources : \E r \in 1..MaxRunners : RunnerLoop(s, r)

\* the runners where sources are stopped and restarted
StoppedRunners == \E s \in Sources : \E r \in 1..MaxRunners : Runner(s, r)

ToggleThreads == \E t \in 1..MaxToggles : ToggleThread(t)

SearchThreads == \E t \in 1..MaxSearches : SearchThread(t)

\* ingestion and filter replay
Next ==
    \/ \E s \in Sources : AppendLine(s)
    \/ Runners
    \/ Consumer
    \/ \E id \in FilterIds : TF_Call(id)
    \/ TF_Spawn
    \/ ToggleThreads

Spec == Init /\ [][Next]_vars

\* ingestion of a file that is already written, and filter replay
NextReplay ==
    \/ Runners
    \/ Consumer
    \/ \E id \in FilterIds : TF_Call(id)
    \/ TF_Spawn
    \/ ToggleThreads

\* the same, with the scheduling the threads of the program get: a thread
\* that can take a step eventually takes one, and a replay thread blocked
\* on the full queue gets its batch in once there is room again and again
FairSpec ==
    /\ InitWritten
    /\ [][NextReplay]_vars
    /\ WF_vars(Runners)
    /\ WF_vars(Consumer)
    /\ WF_vars(TF_Spawn)
    /\ SF_vars(ToggleThreads)

\* ingestion and searches
NextSearch ==
    \/ \E s \in Sources : AppendLine(s)
    \/ Runners
    \/ Consumer
    \/ \E q \in Queries : AS_Call(q)
    \/ AS_Spawn
    \/ SearchThreads

SpecSearch == Init /\ [][NextSearch]_vars

\* ingestion with sources stopped and restarted
NextSource ==
    \/ \E s \in Sources : AppendLine(s)
    \/ StoppedRunners
    \/ Consumer
    \/ \E s \in Sources : ToggleSource(s)

SpecSource == Init /\ [][NextSource]_vars

\* ingestion from two sources
NextIngest ==
    \/ \E s \in Sources : AppendLine(s)
    \/ Runners
    \/ Consumer

SpecTwoSources == InitTwoSources /\ [][NextIngest]_vars

\* the same, with a consumer thread that takes its steps
FairIngest == InitTwoSources /\ [][NextIngest]_vars /\ WF_vars(Consumer)

(***************************************************************************)
(* Properties                                                              *)
(***************************************************************************)
\* the compiled format of source s, as LogService::apply_format resolves it
FormatRegexOf(s) ==
    IF LogStore_get_format(s).some
       /\ ProcessingStore_get_format(LogStore_get_format(s).alias).some
    THEN ProcessingStore_get_format(LogStore_get_format(s).alias).regex
    ELSE NoFormat

\* what the currently enabled filters make of raw line i (from 0) of s
ReplayResult(s, i) ==
    apply_filters(EnabledFilters(filters_enabled),
                  apply_format(FormatRegexOf(s), s, raw_lines[s].lines[i + 1], i))

\* the kept records of the retained raw lines of s, in line order
ReplayOf(s) ==
    LET all == [i \in 1..Len(raw_lines[s].lines) |-> ReplayResult(s, i - 1)]
        kept == SelectSeq(all, LAMBDA r : r.kept)
    IN [i \in 1..Len(kept) |-> kept[i].line]

RECURSIVE ConcatReplay(_)
ConcatReplay(srcs) ==
    IF srcs = <<>> THEN <<>> ELSE ReplayOf(Head(srcs)) \o ConcatReplay(Tail(srcs))

CountIn(seq, r) == Cardinality({k \in DOMAIN seq : seq[k] = r})

\* every toggle_filter call made has finished its replay, and the pipeline
\* is drained
ReplayQuiescent ==
    /\ Len(toggles) > 0
    /\ \A t \in DOMAIN toggles : toggles[t].pc = "done"
    /\ ui.pc = "idle"
    /\ queue = <<>>
    /\ cons.pc = "idle"

\* C1: once FilterFinished has been broadcast for every enabled source and
\* the queue is drained, the filtered log holds exactly one record per
\* retained raw line that passes the enabled filters, and nothing else (no
\* record made under the previous filters, no line twice, none dropped).
C1_ReplayExact ==
    ReplayQuiescent =>
        /\ \A k \in DOMAIN log :
              \E s \in registered : \E i \in 1..Len(raw_lines[s].lines) :
                 /\ ReplayResult(s, i - 1).kept
                 /\ log[k] = ReplayResult(s, i - 1).line
        /\ \A s \in registered : \A i \in 1..Len(raw_lines[s].lines) :
              ReplayResult(s, i - 1).kept =>
                 CountIn(log, ReplayResult(s, i - 1).line) = 1

\* C2: the filtered log is sorted strictly ascending by the numeric value of
\* the index field, in every reachable state.
C2_SortedByIndex ==
    \A i \in DOMAIN log : \A j \in DOMAIN log :
        i < j => parse_usize(log[i].index).val < parse_usize(log[j].index).val

RECURSIVE IsSubseq(_, _)
\* whether a is a sub-sequence of b
IsSubseq(a, b) ==
    IF a = <<>> THEN TRUE
    ELSE IF b = <<>> THEN FALSE
         ELSE IF Head(a) = Head(b) THEN IsSubseq(Tail(a), Tail(b))
              ELSE IsSubseq(a, Tail(b))

\* C3: the search log is a sub-sequence of the filtered log in every
\* reachable state.
C3_SearchSubseq == IsSubseq(search_log, log)

\* C4: every toggle_filter call runs to completion: its thread, once
\* spawned, eventually has sent FilterFinished for every enabled source.
\* (A thread that ended in the failed unwrap of extract_lines is counted as
\* ended here, so that what is left is the wait loop.)
C4_ToggleCompletes ==
    \A t \in 1..MaxToggles :
        (Len(toggles) >= t) ~>
            (Len(toggles) >= t /\ toggles[t].pc \in {"done", "panicked"})

\* C5: if no runner delivers a batch while toggle_filter runs, then after it
\* completes (and the pipeline is drained) the filtered log equals, source
\* after source in replay order, the kept records of the retained raw lines
\* under the new filters, indexed from 0 per source.
C5_ReplayEquals ==
    (ReplayQuiescent /\ h_clean) => log = ConcatReplay(EnabledLogs)

\* n add_search calls were made, all with patterns that compile, every
\* search thread has come to one of the given ends, and the pipeline is
\* drained
SearchQuiescent(n, ends) ==
    /\ h_search_calls = n
    /\ Len(searches) = n
    /\ \A t \in DOMAIN searches : searches[t].pc \in ends
    /\ ui.pc = "idle"
    /\ queue = <<>>
    /\ cons.pc = "idle"

\* the filtered records matching the stored query, in filtered-log order
MatchesOfQuery == SelectSeq(log, LAMBDA l : apply_search(search_query.q, l))

\* C6: after add_search(q1) followed by add_search(q2) and after both
\* workers have finished, the search log holds the filtered records matching
\* q2, once each and in order, and nothing the q1 worker appended.  (Stated
\* for the runs in which the filtered log did not change since the first
\* call, so that only the two workers write the search log.)
C6_LatestQueryOnly ==
    (SearchQuiescent(2, {"done", "ended"}) /\ Len(log) = h_base_len) => search_log = MatchesOfQuery

\* C7: for one add_search(q) running beside the consumer: once
\* SearchFinished has been sent and the queue is drained, the search log
\* holds each filtered record matching q exactly once, in order.
C7_SearchExact ==
    SearchQuiescent(1, {"done"}) => search_log = MatchesOfQuery

\* C8: a source that toggle_source has enabled has a runner.
C8_EnabledHasRunner ==
    \A s \in registered :
        (st_enabled[s] /\ ui.pc = "idle") =>
            \E r \in 1..MaxRunners : runners[s][r].pc # "exited"

\* whether a is a prefix of b
IsPrefix(a, b) == Len(a) <= Len(b) /\ SubSeq(b, 1, Len(a)) = a

\* C9: the lines sent for a file source are the lines of the file, once each
\* and in file order.
C9_SentOnceInOrder ==
    \A s \in registered : IsPrefix(h_sent[s], FileLines(s, fileLen[s]))

RECURSIVE ConcatFormatted(_, _)
\* the records the chunks from k on were formatted into
ConcatFormatted(results, k) ==
    IF k > Len(results) THEN <<>>
    ELSE results[k].formatted \o ConcatFormatted(results, k + 1)

ConsumerEventTypes == {"Processing", "NewLines", "NewSearchLines"}

ConsumerEvents(inbox) == SelectSeq(inbox, LAMBDA e : e.type \in ConsumerEventTypes)

\* the subscribers that are still listening
Listening(tg) == {t \in DOMAIN tg : tg[t].pc \notin {"done", "panicked"}}

\* the events this step has put into the inbox of subscriber t
Received(t) ==
    IF /\ t \in DOMAIN toggles
       /\ Len(toggles'[t].inbox) > Len(toggles[t].inbox)
       /\ SubSeq(toggles'[t].inbox, 1, Len(toggles[t].inbox)) = toggles[t].inbox
    THEN SubSeq(toggles'[t].inbox, Len(toggles[t].inbox) + 1, Len(toggles'[t].inbox))
    ELSE <<>>

\* the consumer events a subscriber holds follow the cycle Processing,
\* NewLines, NewSearchLines, the three of one cycle with the same indexes
InboxInBatchOrder ==
    \A t \in DOMAIN toggles :
        LET evs == ConsumerEvents(toggles[t].inbox)
        IN \A i \in 1..(Len(evs) - 1) :
              /\ evs[i].type = "Processing"
                    => evs[i + 1] = [evs[i] EXCEPT !.type = "NewLines"]
              /\ evs[i].type = "NewLines"
                    => evs[i + 1] = [evs[i] EXCEPT !.type = "NewSearchLines"]
              /\ evs[i].type = "NewSearchLines" => evs[i + 1].type = "Processing"

\* the consumer stores the batch it has taken off the queue
ConsumerStores == cons.pc = "store" /\ cons'.pc # "store"

\* what each step of the consumer broadcasts
BatchEventStep ==
    /\ ConsumerStores /\ cons.lines = <<>>
          => /\ toggles' = toggles
             /\ cons'.pc = "idle"
    /\ ConsumerStores /\ cons.lines # <<>>
          => /\ cons'.pc = "map"
             /\ Len(cons'.elements) = Len(cons.lines)
             /\ \A t \in Listening(toggles) :
                   Received(t) = <<Event("Processing", cons'.elements[1].index,
                                         cons'.elements[Len(cons'.elements)].index)>>
    /\ cons.pc = "add_lines" /\ cons'.pc # "add_lines"
          => log' = log \o cons.results[cons.next].filtered
    /\ cons.pc = "notify" /\ cons'.pc # "notify"
          => /\ cons.next = Len(cons.results) + 1
             /\ \A t \in Listening(toggles) :
                   Received(t) = <<Event("NewLines", cons.elements[1].index,
                                         cons.elements[Len(cons.elements)].index),
                                   Event("NewSearchLines", cons.elements[1].index,
                                         cons.elements[Len(cons.elements)].index)>>
    /\ \A t \in DOMAIN toggles :
          ConsumerEvents(Received(t)) # <<>>
             => \/ ConsumerStores /\ cons.lines # <<>>
                \/ cons.pc = "notify" /\ cons'.pc # "notify"

\* C11: every non-empty batch makes the consumer broadcast Processing, then
\* NewLines, then NewSearchLines, all three with the first and the last index
\* of the batch; NewLines is sent once every chunk of the batch has been
\* appended to the filtered log; the events of two batches do not interleave;
\* an empty batch produces no event
C11_BatchEvents == []InboxInBatchOrder /\ [][BatchEventStep]_vars

\* a subscriber holds the three events of one batch and the first of the next
C11_Witness ==
    \E t \in DOMAIN toggles :
        LET evs == ConsumerEvents(toggles[t].inbox)
        IN /\ Len(evs) >= 4
           /\ evs[1].type = "Processing"
           /\ evs[4].type = "Processing"
           /\ evs[1].to > evs[1].from

(***************************************************************************)
(* The events of a filter replay                                           *)
(***************************************************************************)
\* replay thread t sends FilterFinished in this step: it does so exactly
\* when it leaves the source at the head of its list
SendsFilterFinished(t) ==
    /\ t \in DOMAIN toggles
    /\ Len(toggles'[t].logs) < Len(toggles[t].logs)

\* replay thread t has sent Filtering for the source at the head of its list:
\* it has enqueued the batch and waits for its NewLines event
HasSentFiltering(t) == toggles[t].pc = "wait"

\* C12: for each enabled source handled by toggle_filter, FilterFinished is
\* broadcast only after Filtering has been broadcast for that source,
\* whatever the size of the source's retained buffer
C12_FilteringBeforeFinished ==
    [][\A t \in 1..MaxToggles : SendsFilterFinished(t) => HasSentFiltering(t)]_vars

(***************************************************************************)
(* The events of a search                                                  *)
(***************************************************************************)
\* search thread t has returned without sending any event
EndedSilently(t) == searches[t].pc = "ended"

\* C13: every add_search call whose pattern compiles broadcasts Searching and
\* later SearchFinished, whatever the size of the filtered log at the call:
\* no search thread returns without having sent the two events
C13_SearchEvents == \A t \in DOMAIN searches : ~EndedSilently(t)

\* an add_search call with a pattern that does not compile
InvalidSearchCall == \E q \in Queries : ~Regex_new_ok(q) /\ AS_Call(q)

\* C14: add_search with a pattern that does not compile does nothing: the
\* search query, the search log and the filtered log are unchanged, no search
\* thread is started and no event is broadcast
C14_InvalidSearchNoEffect ==
    [][InvalidSearchCall =>
          UNCHANGED <<search_query, search_log, log, searches, toggles>>]_vars

(***************************************************************************)
(* Ingestion with no filter enabled and no search query                    *)
(***************************************************************************)
\* the formatted record of line i (from 1) that the runners of s have sent,
\* which is given index i - 1
SentRecord(s, i) == apply_format(FormatRegexOf(s), s, h_sent[s][i], i - 1)

NoFilterNoQuery == (\A f \in FilterIds : ~filters_enabled[f]) /\ ~search_query.some

\* the filtered log holds records of sent lines only, and none of them twice
SentAtMostOnce ==
    /\ \A k \in DOMAIN log :
          \E s \in Sources : \E i \in 1..Len(h_sent[s]) :
             log[k] = SentRecord(s, i)
    /\ \A s \in Sources : \A i \in 1..Len(h_sent[s]) :
          CountIn(log, SentRecord(s, i)) <= 1

\* sent line i of s is in the filtered log, once
InFilteredLog(s, i) ==
    /\ Len(h_sent[s]) >= i
    /\ CountIn(log, SentRecord(s, i)) = 1

RECURSIVE SumOfLens(_, _)
SumOfLens(f, srcs) ==
    IF srcs = <<>> THEN 0 ELSE Len(f[Head(srcs)]) + SumOfLens(f, Tail(srcs))

\* InMemmoryLogStore::get_total_lines
LogStore_get_total_lines(rl) ==
    SumOfLens([s \in Sources |-> rl[s].lines], SourceOrder)

\* the lines all runners have sent so far
TotalSent == SumOfLens(h_sent, SourceOrder)

\* a replay thread is at work
ReplayInFlight == \E t \in DOMAIN toggles : toggles[t].pc \notin {"done", "panicked"}

\* the raw-line count is the number of lines sent whenever the queue is
\* empty, the consumer holds no batch and no replay is in flight
RawTotalIsSent ==
    queue = <<>> /\ cons.pc = "idle" /\ ~ReplayInFlight
        => LogStore_get_total_lines(raw_lines) = TotalSent

\* when a replay thread sends FilterFinished for a source, the lines it
\* took out of the buffer of that source are back in it
RawCountKept ==
    \A t \in 1..MaxToggles :
        SendsFilterFinished(t) =>
            Len(raw_lines[Head(toggles[t].logs)].lines) >= Len(toggles[t].lines)

\* C16: a completed toggle_filter leaves the raw-line count of every source
\* as it was: when FilterFinished is broadcast for a source, the buffer of
\* that source holds again the lines that were extracted from it (the other
\* half of the claim, the total once the pipeline is drained, is
\* RawTotalIsSent)
C16_RawLinesKept == [][RawCountKept]_vars

(***************************************************************************)
(* The functions of domain::apply_filters called on their own: a list of   *)
(* filters as add_filter takes them, compiled as LogService::apply_filters *)
(* compiles them, and one record                                           *)
(***************************************************************************)
FilterActions == {"INCLUDE", "EXCLUDE", "MARKER"}

FilterColors == {NoColor, <<1, 2, 3>>, <<4, 5, 6>>}

\* a pattern that does not compile in every field
NoPatternCompiles ==
    [log |-> <<"(">>, index |-> <<"(">>, date |-> <<"(">>, timestamp |-> <<"(">>,
     app |-> <<"(">>, severity |-> <<"(">>, function |-> <<"(">>, payload |-> <<"(">>,
     color |-> NoColor]

\* the field patterns of a filter: on the severity, on the payload, on both,
\* all empty, none that compiles
FilterPatterns ==
    {[EmptyLine EXCEPT !.severity = <<"e">>],
     [EmptyLine EXCEPT !.payload = <<"x">>],
     [EmptyLine EXCEPT !.severity = <<"e">>, !.payload = <<"x">>],
     EmptyLine,
     NoPatternCompiles}

FilterPool ==
    {[alias |-> "f", action |-> a, filter |-> [p EXCEPT !.color = c]] :
        a \in FilterActions, p \in FilterPatterns, c \in FilterColors}

FilterLists == UNION {[1..n -> FilterPool] : n \in 0..MaxFilters}

\* the records the functions are called on
RecordPool ==
    {[EmptyLine EXCEPT !.log = SrcA, !.index = <<"0">>, !.severity = sev,
                       !.payload = pay, !.color = c] :
        sev \in {<<"e">>, <<"w">>}, pay \in {<<"a", "x">>, <<"y">>},
        c \in {NoColor, <<7, 8, 9>>}}

\* the LogFilters of a list of Filters
Compiled(fs) == [i \in 1..Len(fs) |-> LogFilter_from(fs[i])]

InitFilterCall ==
    /\ InitPipeline({}, [s \in Sources |-> 0])
    /\ \E fs \in FilterLists : \E l \in RecordPool :
          call = [pc |-> "ready", filters |-> fs, line |-> l]

CallUnchanged ==
    UNCHANGED <<fileLen, read_lines, src_enabled, runners, queue, registered, raw_lines,
                st_enabled, filters_enabled, log, search_log, search_query, cons, ui,
                toggles, searches, src_toggles, h_sent, h_clean, h_search_calls,
                h_base_len>>

\* apply_filters(&filters, line)
Call_apply_filters ==
    /\ call.pc = "ready"
    /\ call' = [pc |-> "apply_filters", filters |-> call.filters, line |-> call.line,
                result |-> apply_filters(Compiled(call.filters), call.line)]
    /\ CallUnchanged

\* filter_line(&filter, &mut line) with the first filter of the list
Call_filter_line ==
    /\ call.pc = "ready"
    /\ call.filters # <<>>
    /\ call' = [pc |-> "filter_line", filters |-> call.filters, line |-> call.line,
                result |-> filter_line(LogFilter_from(call.filters[1]), call.line)]
    /\ CallUnchanged

NextFilterCall == Call_apply_filters \/ Call_filter_line

SpecFilterCall == InitFilterCall /\ [][NextFilterCall]_vars

\* a filter matches a record: it has a compiled field pattern, and each of
\* its compiled field patterns matches somewhere in the field it is on
Matches(f, r) ==
    /\ f.filters # <<>>
    /\ \A i \in DOMAIN f.filters :
          Regex_is_match(f.filters[i].re, LogLine_get(r, f.filters[i].key))

\* the filters of fs with action a
WithAction(fs, a) == SelectSeq(fs, LAMBDA f : f.action = a)

\* some filter of fs with action a matches r
SomeMatches(fs, a, r) ==
    \E i \in DOMAIN WithAction(fs, a) : Matches(WithAction(fs, a)[i], r)

\* apply_filters has returned
AppliedFilters == call.pc = "apply_filters"

\* C17: apply_filters(F, r) returns a record iff some INCLUDE filter of F
\* matches r, or F has no INCLUDE filter and no EXCLUDE filter of F matches
\* r (a matching INCLUDE wins over a matching EXCLUDE); the record returned
\* is r in its eight text fields, only the color may differ
C17_KeptIffIncluded ==
    AppliedFilters =>
        LET F == Compiled(call.filters)
            r == call.line
        IN /\ call.result.kept <=>
                 \/ SomeMatches(F, "INCLUDE", r)
                 \/ WithAction(F, "INCLUDE") = <<>> /\ ~SomeMatches(F, "EXCLUDE", r)
           /\ call.result.kept => [call.result.line EXCEPT !.color = r.color] = r

\* a record that an INCLUDE and an EXCLUDE filter both match is returned,
\* with another color
C17_Witness ==
    /\ AppliedFilters
    /\ SomeMatches(Compiled(call.filters), "INCLUDE", call.line)
    /\ SomeMatches(Compiled(call.filters), "EXCLUDE", call.line)
    /\ call.result.kept
    /\ call.result.line.color # call.line.color

\* the color c after filter f has been applied to r, where a filter writes
\* its color only when it matches and has one
ColorIfSet(f, r, c) == IF Matches(f, r) /\ f.color # NoColor THEN f.color ELSE c

RECURSIVE ColorIfSetAll(_, _, _, _)
\* the same for the markers from i on, in iteration order
ColorIfSetAll(markers, r, c, i) ==
    IF i > Len(markers) THEN c
    ELSE ColorIfSetAll(markers, r, ColorIfSet(markers[i], r, c), i + 1)

\* the first filter of fs that matches r (there is one)
FirstMatching(fs, r) == fs[CHOOSE i \in DOMAIN fs :
                             Matches(fs[i], r) /\ \A j \in 1..(i - 1) : ~Matches(fs[j], r)]

\* the final color of a kept record r under the filters F
ColorOfKept(F, r) ==
    LET included == IF SomeMatches(F, "INCLUDE", r)
                    THEN ColorIfSet(FirstMatching(WithAction(F, "INCLUDE"), r), r, r.color)
                    ELSE r.color
    IN ColorIfSetAll(WithAction(F, "MARKER"), r, included, 1)

\* C18: the color of a record kept by apply_filters starts as the record's
\* color, is overwritten by the color of the matching INCLUDE filter only if
\* that filter has one, then by the color of each matching MARKER in
\* iteration order only if that marker has one: the last matching MARKER with
\* a color wins and a matching filter without a color changes nothing
C18_ColorOfKept ==
    AppliedFilters /\ call.result.kept =>
        call.result.line.color = ColorOfKept(Compiled(call.filters), call.line)

\* every field pattern of the Filter f is the empty string or does not compile
NoUsablePattern(f) ==
    \A i \in DOMAIN ValueKeys :
        \/ LogLine_get(f.filter, ValueKeys[i]) = <<>>
        \/ ~Regex_new_ok(LogLine_get(f.filter, ValueKeys[i]))

\* filter_line has returned
FilteredLine == call.pc = "filter_line"

\* C19: a filter whose field patterns are all empty (or all fail to compile)
\* matches no record: alone in the filter list, such an INCLUDE excludes
\* every record, such an EXCLUDE excludes none and such a MARKER changes no
\* color
C19_EmptyNeverMatches ==
    /\ FilteredLine /\ NoUsablePattern(call.filters[1]) => ~call.result.is_match
    /\ AppliedFilters /\ Len(call.filters) = 1 /\ NoUsablePattern(call.filters[1]) =>
          CASE call.filters[1].action = "INCLUDE" -> ~call.result.kept
            [] call.filters[1].action = "EXCLUDE" ->
                  call.result.kept /\ call.result.line = call.line
            [] call.filters[1].action = "MARKER" ->
                  call.result.kept /\ call.result.line = call.line

\* each compiled field pattern of f matches somewhere in its field of r
EveryPatternMatches(f, r) ==
    \A i \in DOMAIN f.filters :
        Regex_is_match(f.filters[i].re, LogLine_get(r, f.filters[i].key))

\* what filter_line does to the record: the filter's color on a match,
\* nothing otherwise
ColorOnMatch ==
    call.result.line = IF call.result.is_match
                       THEN [call.line EXCEPT !.color = LogFilter_from(call.filters[1]).color]
                       ELSE call.line

\* C20 as stated: filter_line(f, r) returns true iff every compiled field
\* pattern of f matches inside its field of r; on a match the color of the
\* record becomes the filter's, otherwise the record is left as it was
C20_MatchIffEveryPattern ==
    FilteredLine =>
        /\ call.result.is_match <=>
              EveryPatternMatches(LogFilter_from(call.filters[1]), call.line)
        /\ ColorOnMatch

\* C20, amended: filter_line(f, r) returns true iff f has a compiled field
\* pattern and every compiled field pattern of f matches inside its field of
\* r (a partial match is enough, one failing field makes it false); on a
\* match the color of the record becomes the filter's, otherwise the record
\* is left as it was
C20_MatchIffSomeAndEvery ==
    FilteredLine =>
        /\ call.result.is_match <=> Matches(LogFilter_from(call.filters[1]), call.line)
        /\ ColorOnMatch

\* a filter on the severity and the payload matches a record whose payload
\* holds the pattern in its middle, and gives it its color
C20_Witness ==
    /\ FilteredLine
    /\ call.filters[1].filter.severity = <<"e">>
    /\ call.filters[1].filter.payload = <<"x">>
    /\ call.line.payload = <<"a", "x">>
    /\ call.result.is_match
    /\ call.result.line.color # call.line.color

(***************************************************************************)
(* domain::format_search and LogLineStyled::unformat                       *)
(***************************************************************************)
\* Option<String>::None for the group of a span
NoGroup == <<>>

\* &s[from..to], byte offsets from 0
Slice(s, from, to) == SubSeq(s, from + 1, to)

saturating_sub(a, b) == IF a >= b THEN a - b ELSE 0

\* the keys of LogLine::columns, in its order
Columns == <<"Log", "Index", "Date", "Timestamp", "App", "Severity", "Function", "Payload">>

RECURSIVE split_groups(_, _, _, _, _)
\* the loop over the captured groups: the text before each group, if any,
\* then the group; yields the spans and the offset reached
split_groups(groups, s, i, offset, string_groups) ==
    IF i > Len(groups) THEN [offset |-> offset, string_groups |-> string_groups]
    ELSE LET unmatched == Slice(s, offset, groups[i].start)
             captured == [group |-> <<groups[i].group>>,
                          text |-> Slice(s, groups[i].start, groups[i].end)]
         IN split_groups(groups, s, i + 1, groups[i].end,
                         string_groups
                         \o (IF unmatched # <<>>
                             THEN <<[group |-> NoGroup, text |-> unmatched]>> ELSE <<>>)
                         \o <<captured>>)

RECURSIVE split_groups_panics(_, _, _)
\* whether the loop over the captured groups fails: &s[offset..start] with a
\* group that starts before the offset reached
split_groups_panics(groups, i, offset) ==
    IF i > Len(groups) THEN FALSE
    ELSE groups[i].start < offset \/ split_groups_panics(groups, i + 1, groups[i].end)

\* whether format_search fails on one of the columns of the record
format_search_panics(search, l) ==
    \E i \in 1..Len(Columns) :
        LET s == LogLine_get(l, Columns[i])
        IN  Regex_is_match(search, s)
            /\ split_groups_panics(Regex_named_captures(search, s), 1, 0)

\* the closure format_search maps over the columns, for the text s of one
\* column
format_search_column(search, s) ==
    IF ~Regex_is_match(search, s) THEN <<[group |-> NoGroup, text |-> s]>>
    ELSE LET groups == Regex_named_captures(search, s)
         IN IF groups = <<>> THEN <<[group |-> NoGroup, text |-> s]>>
            ELSE LET done == split_groups(groups, s, 1, 0, <<>>)
                 IN IF done.offset < saturating_sub(Len(s), 1)
                    THEN done.string_groups
                         \o <<[group |-> NoGroup, text |-> Slice(s, done.offset, Len(s))]>>
                    ELSE done.string_groups

\* format_search(search, log_line): a LogLineStyled
format_search(search, l) ==
    LET columns == [i \in 1..Len(Columns) |->
                       format_search_column(search, LogLine_get(l, Columns[i]))]
    IN [log |-> columns[1], index |-> columns[2], date |-> columns[3],
        timestamp |-> columns[4], app |-> columns[5], severity |-> columns[6],
        function |-> columns[7], payload |-> columns[8], color |-> l.color]

RECURSIVE unformat_groups(_)
\* groups.into_iter().fold(String::new(), |acc, g| acc + &g.1)
unformat_groups(groups) ==
    IF groups = <<>> THEN <<>> ELSE Head(groups).text \o unformat_groups(Tail(groups))

\* LogLineStyled::unformat
LogLineStyled_unformat(st) ==
    [log |-> unformat_groups(st.log), index |-> unformat_groups(st.index),
     date |-> unformat_groups(st.date), timestamp |-> unformat_groups(st.timestamp),
     app |-> unformat_groups(st.app), severity |-> unformat_groups(st.severity),
     function |-> unformat_groups(st.function), payload |-> unformat_groups(st.payload),
     color |-> st.color]

(***************************************************************************)
(* The functions of a search called on their own: a pattern that compiles  *)
(* and one record                                                          *)
(***************************************************************************)
SearchPatterns == {<<"x">>, <<"0">>, <<"b", " ">>, <<>>, WordRest, Word, NestedWord}

\* texts with a word at the start, in the middle and at the end, and with
\* one or two characters after the word
SearchTexts ==
    {<<>>, <<"a", "b">>, <<"a", "b", " ">>, <<"a", "b", " ", " ">>, <<" ", "a", "b">>,
     <<"a", " ", "x">>, <<" ", "x", " ", "b", " ">>}

SearchRecords ==
    {[EmptyLine EXCEPT !.log = SrcA, !.index = <<"0">>, !.severity = sev,
                       !.payload = pay, !.color = c] :
        sev \in {<<>>, <<"x">>}, pay \in SearchTexts, c \in {NoColor, <<7, 8, 9>>}}

InitSearchCall ==
    /\ InitPipeline({}, [s \in Sources |-> 0])
    /\ \E p \in SearchPatterns : \E l \in SearchRecords :
          call = [pc |-> "ready", search |-> p, line |-> l]

\* format_search(&search, &line)
Call_format_search ==
    /\ call.pc = "ready"
    /\ call' = [pc |-> "format_search", search |-> call.search, line |-> call.line,
                panicked |-> format_search_panics(call.search, call.line),
                result |-> IF format_search_panics(call.search, call.line) THEN <<>>
                           ELSE format_search(call.search, call.line)]
    /\ CallUnchanged

\* styled.unformat() of the line format_search has returned
Call_unformat ==
    /\ call.pc = "format_search"
    /\ ~call.panicked
    /\ call' = [pc |-> "unformat", search |-> call.search, line |-> call.line,
                result |-> LogLineStyled_unformat(call.result)]
    /\ CallUnchanged

\* apply_search(&search, &line)
Call_apply_search ==
    /\ call.pc = "ready"
    /\ call' = [pc |-> "apply_search", search |-> call.search, line |-> call.line,
                result |-> apply_search(call.search, call.line)]
    /\ CallUnchanged

NextSearchCall == Call_format_search \/ Call_unformat \/ Call_apply_search

SpecSearchCall == InitSearchCall /\ [][NextSearchCall]_vars

\* C21: for every pattern p that compiles and every record r,
\* unformat(format_search(p, r)) is r, in every text field and in color,
\* wherever the named captures lie in the field
C21_UnformatRoundTrip == call.pc = "unformat" => call.result = call.line

\* some field of r, of the eight of LogLine::columns, holds a match of p
AnyFieldMatches(p, r) ==
    \E i \in DOMAIN Columns : Regex_is_match(p, LogLine_get(r, Columns[i]))

\* C22: apply_search(p, r) is true iff at least one of the eight fields of r
\* (log, index, date, timestamp, app, severity, function, payload) holds a
\* match of p
C22_SearchAnyField ==
    call.pc = "apply_search" => (call.result <=> AnyFieldMatches(call.search, call.line))

(***************************************************************************)
(* Window queries of the analysis store, called on their own.  The log is  *)
(* sorted strictly ascending by numeric index, as the consumer keeps it.   *)
(***************************************************************************)

Panicked == [panicked |-> TRUE]
Returned(v) == [panicked |-> FALSE, val |-> v]

\* log[from.min(log.len())..to.min(log.len())].to_vec(): a range whose start
\* exceeds its end panics
AnalysisStore_get_lines(source, from, to) ==
    LET f == Min(from, Len(source))
        t == Min(to, Len(source))
    IN  IF f > t THEN Panicked ELSE Returned(SubSeq(source, f + 1, t))

\* slice::binary_search_by over [lo, hi) (0-based), comparing parsed indexes
RECURSIVE binary_search_by(_, _, _, _)
binary_search_by(source, target, lo, hi) ==
    IF lo >= hi THEN lo
    ELSE LET mid == lo + (hi - lo) \div 2
             e == parse_usize(source[mid + 1].index).val
         IN  IF e = target THEN mid
             ELSE IF e < target THEN binary_search_by(source, target, mid + 1, hi)
             ELSE binary_search_by(source, target, lo, mid)

\* Ok(i) => i, Err(i) => i
find_sorted_index(source, element) ==
    binary_search_by(source, parse_usize(element.index).val, 0, Len(source))

\* a window whose third component is the position in the whole log
find_rolling_window_whole(source, line, elements) ==
    LET closest == find_sorted_index(source, line)
        from == IF (elements \div 2) < closest THEN closest - elements \div 2 ELSE 0
        to == Min(closest + elements \div 2, Len(source))
    IN  [lines |-> SubSeq(source, from + 1, to), offset |-> from, index |-> closest]

find_rolling_window(source, line, elements) ==
    LET closest == find_sorted_index(source, line)
        from == IF (elements \div 2) < closest THEN closest - elements \div 2 ELSE 0
        to == Min(closest + elements \div 2, Len(source))
        lines == SubSeq(source, from + 1, to)
    IN  [lines |-> lines, offset |-> from, index |-> find_sorted_index(lines, line)]

IndexedLine(i) == [EmptyLine EXCEPT !.log = SrcA, !.index = to_string(i)]

RECURSIVE SortedLog(_, _)
\* the records whose indexes are in S, ascending from index i
SortedLog(S, i) ==
    IF i > MaxIndex THEN <<>>
    ELSE IF i \in S THEN <<IndexedLine(i)>> \o SortedLog(S, i + 1)
    ELSE SortedLog(S, i + 1)

SortedLogs == {SortedLog(S, 0) : S \in SUBSET (0..MaxIndex)}

WindowArgs == 0..(MaxIndex + 2)

InitWindowCall ==
    /\ InitPipeline({}, [s \in Sources |-> 0])
    /\ \E l \in SortedLogs : \E a \in WindowArgs : \E b \in WindowArgs :
          call = [pc |-> "ready", source |-> l, a |-> a, b |-> b]

WindowCall(pc, result) ==
    /\ call.pc = "ready"
    /\ call' = [pc |-> pc, source |-> call.source, a |-> call.a, b |-> call.b,
                result |-> result]
    /\ CallUnchanged

\* get_log_lines(from, to) on a store whose log is call.source
Call_get_log_lines ==
    WindowCall("get_log_lines", AnalysisStore_get_lines(call.source, call.a, call.b))

\* get_search_lines(from, to) on a store whose search log is call.source
Call_get_search_lines ==
    WindowCall("get_search_lines", AnalysisStore_get_lines(call.source, call.a, call.b))

\* get_log_lines_containing(line with index a, elements b)
Call_get_log_lines_containing ==
    WindowCall("get_log_lines_containing",
               find_rolling_window(call.source, IndexedLine(call.a), call.b))

\* get_search_lines_containing(line with index a, elements b)
Call_get_search_lines_containing ==
    WindowCall("get_search_lines_containing",
               find_rolling_window(call.source, IndexedLine(call.a), call.b))

NextWindowCall ==
    \/ Call_get_log_lines
    \/ Call_get_search_lines
    \/ Call_get_log_lines_containing
    \/ Call_get_search_lines_containing

SpecWindowCall == InitWindowCall /\ [][NextWindowCall]_vars

\* the half-open slice [from, to) of a log after clamping both bounds to its
\* length; empty when the clamped range is empty
ClampedSlice(source, from, to) ==
    SubSeq(source, Min(from, Len(source)) + 1, Min(to, Len(source)))

RangeCall == call.pc \in {"get_log_lines", "get_search_lines"}

\* C23: get_log_lines(from, to) and get_search_lines(from, to) never fail,
\* whatever the two arguments and the log length: they return a copy of the
\* clamped half-open slice, empty when the clamped range is empty
C23_RangeNeverFails ==
    RangeCall =>
        /\ ~call.result.panicked
        /\ call.result.val = ClampedSlice(call.source, call.a, call.b)

ContainingCall ==
    call.pc \in {"get_log_lines_containing", "get_search_lines_containing"}

\* position of the record of index target in a sorted log, or the position
\* where it would be inserted: the number of records of smaller index
PositionOf(source, target) ==
    Cardinality({i \in DOMAIN source : parse_usize(source[i].index).val < target})

TargetPresent(source, target) ==
    \E i \in DOMAIN source : parse_usize(source[i].index).val = target

\* C24: on a log sorted by numeric index, get_log_lines_containing(target, n)
\* and get_search_lines_containing(target, n) return the slice
\* [max(0, p - n/2), min(len, p + n/2)) around the position p of target (its
\* insertion position when absent), the starting offset of that slice, and
\* p minus that offset; the call does not fail when target is absent
C24_WindowAroundTarget ==
    ContainingCall =>
        LET p == PositionOf(call.source, call.a)
            h == call.b \div 2
            from == Max(0, p - h)
            to == Min(Len(call.source), p + h)
        IN  /\ call.result.lines = SubSeq(call.source, from + 1, to)
            /\ call.result.offset = from
            /\ call.result.index = p - from

\* a window around an absent target that starts inside the log
C24_Witness ==
    /\ ContainingCall
    /\ ~TargetPresent(call.source, call.a)
    /\ call.result.offset > 0
    /\ call.result.index > 0
    /\ Len(call.result.lines) > call.result.index

(***************************************************************************)
(* The format store, called on its own: add_format of the facade and the   *)
(* consumer's resolution of a format alias into a compiled pattern.        *)
(***************************************************************************)

FormatAliases == {"", "sev", "all"}

\* a pattern that does not compile
Unbalanced == <<"(">>

FormatRegexes == {<<>>, <<"x">>, WordRest, Word, Unbalanced}

NoRegex == [some |-> FALSE]
SomeRegex(r) == [some |-> TRUE, regex |-> r]

\* Format::new that keeps a pattern without compiling it
Format_new_unchecked(alias, regex) ==
    IF alias = "" \/ regex = <<>> THEN [ok |-> FALSE]
    ELSE [ok |-> TRUE, alias |-> alias, regex |-> regex]

\* Format::new(alias, regex)
Format_new(alias, regex) ==
    IF alias = "" \/ regex = <<>> THEN [ok |-> FALSE]
    ELSE IF Regex_new_ok(regex) THEN [ok |-> TRUE, alias |-> alias, regex |-> regex]
    ELSE [ok |-> FALSE]

\* InMemmoryProcessingStore::new: no format
InitFormatCall ==
    /\ InitPipeline({}, [s \in Sources |-> 0])
    /\ call = [pc |-> "ready", formats |-> [a \in FormatAliases |-> NoRegex],
               n |-> 0, rejected |-> 0]

\* LogService::add_format(alias, regex)
Call_add_format ==
    /\ call.n < MaxFormatCalls
    /\ \E alias \in FormatAliases : \E regex \in FormatRegexes :
         \E format \in {Format_new(alias, regex)} :
            call' = [pc |-> "add_format", alias |-> alias, regex |-> regex,
                     formats |-> IF format.ok
                                 THEN [call.formats EXCEPT ![format.alias] = SomeRegex(format.regex)]
                                 ELSE call.formats,
                     result |-> format.ok,
                     n |-> call.n + 1,
                     rejected |-> IF format.ok THEN call.rejected ELSE call.rejected + 1]
    /\ CallUnchanged

\* the format resolution of LogService::apply_format for a source bound to
\* alias: get_format(alias).map(|format| Regex::new(&format).unwrap())
Call_resolve_format ==
    /\ call.n < MaxFormatCalls
    /\ \E alias \in FormatAliases :
         call' = [pc |-> "resolve_format", alias |-> alias, formats |-> call.formats,
                  result |-> IF ~call.formats[alias].some THEN "none"
                             ELSE IF Regex_new_ok(call.formats[alias].regex) THEN "compiled"
                             ELSE "panicked",
                  n |-> call.n + 1, rejected |-> call.rejected]
    /\ CallUnchanged

NextFormatCall == Call_add_format \/ Call_resolve_format

SpecFormatCall == InitFormatCall /\ [][NextFormatCall]_vars

AddFormatStep == call'.pc = "add_format" /\ call'.n = call.n + 1

\* alias is empty, pattern is empty, or pattern does not compile
InvalidFormat(alias, regex) == alias = "" \/ regex = <<>> \/ ~Regex_new_ok(regex)

AddFormatEffect ==
    AddFormatStep =>
        IF InvalidFormat(call'.alias, call'.regex)
        THEN ~call'.result /\ call'.formats = call.formats
        ELSE /\ call'.result
             /\ call'.formats = [call.formats EXCEPT ![call'.alias] = SomeRegex(call'.regex)]

StoredFormatsCompile ==
    \A a \in FormatAliases : call.formats[a].some => Regex_new_ok(call.formats[a].regex)

ResolveNeverFails == call.pc = "resolve_format" => call.result # "panicked"

\* C25: add_format(alias, pattern) returns an error and leaves the format
\* store unchanged when alias is empty, pattern is empty or pattern does not
\* compile, and otherwise stores alias -> pattern and returns ok; so every
\* stored pattern compiles and compiling a bound format never fails
C25_StoredFormatsCompile ==
    /\ [][AddFormatEffect]_vars
    /\ [](StoredFormatsCompile /\ ResolveNeverFails)

\* a bound format is compiled after add_format has rejected a pattern
C25_Witness ==
    /\ call.pc = "resolve_format"
    /\ call.result = "compiled"
    /\ call.rejected > 0

(***************************************************************************)
(* add_filter on a store that already holds the filter                     *)
(***************************************************************************)

\* LogService::add_filter(FilterDefs[id]): the store inserts the filter
\* under its alias with the enabled flag false, replacing the entry
AF_Call(id) ==
    /\ ui.pc = "idle"
    /\ filters_enabled' = [filters_enabled EXCEPT ![id] = FALSE]
    /\ UNCHANGED <<fileLen, read_lines, src_enabled, runners, queue, registered, call,
                   raw_lines, st_enabled, log, search_log, search_query, cons, ui,
                   toggles, searches, src_toggles, h_sent, h_clean, h_search_calls,
                   h_base_len>>

\* ingestion of a file that is already written, filter replay and add_filter
NextAddFilter ==
    \/ Runners
    \/ Consumer
    \/ \E id \in FilterIds : TF_Call(id)
    \/ TF_Spawn
    \/ ToggleThreads
    \/ \E id \in FilterIds : AF_Call(id)

SpecAddFilter == InitWritten /\ [][NextAddFilter]_vars

\* no call of the facade is running, no replay is in flight and the pipeline
\* is drained
FilterQuiescent ==
    /\ ui.pc = "idle"
    /\ \A t \in DOMAIN toggles : toggles[t].pc = "done"
    /\ queue = <<>>
    /\ cons.pc = "idle"

SameLine(a, b) == a.log = b.log /\ a.index = b.index /\ a.payload = b.payload

\* C26: whenever the set of enabled filters changes, by toggle_filter or by
\* add_filter replacing an enabled filter under its alias, the filtered log
\* is rebuilt: at quiescence it holds no record the enabled filters drop and
\* lacks no retained line they keep
C26_LogFollowsEnabledSet ==
    FilterQuiescent =>
        /\ \A k \in DOMAIN log :
              apply_filters(EnabledFilters(filters_enabled), log[k]).kept
        /\ \A s \in registered : \A i \in 1..Len(raw_lines[s].lines) :
              ReplayResult(s, i - 1).kept =>
                 \E k \in DOMAIN log : SameLine(log[k], ReplayResult(s, i - 1).line)

\* the case of add_filter alone: a replay has finished with nothing in
\* flight at the call, the filtered log is the replay of the retained lines
\* under the filters then enabled, and no filter is enabled any more
AddFilterAfterCleanReplay ==
    /\ FilterQuiescent
    /\ Len(toggles) > 0
    /\ h_clean
    /\ \A id \in FilterIds : ~filters_enabled[id]
    /\ Len(log) < Len(raw_lines[SrcA].lines)

(***************************************************************************)
(* domain::apply_format, called on its own                                 *)
(***************************************************************************)

FormatPatterns == {NoFormat, <<"x">>, WordRest, Word}

InitApplyFormat ==
    /\ InitPipeline({}, [s \in Sources |-> 0])
    /\ \E f \in FormatPatterns : \E s \in Sources : \E l \in SearchTexts :
         \E i \in 0..MaxOrdinal :
            call = [pc |-> "ready", format |-> f, path |-> s, line |-> l, index |-> i]

\* apply_format(&format, path, line, index)
Call_apply_format ==
    /\ call.pc = "ready"
    /\ call' = [pc |-> "apply_format", format |-> call.format, path |-> call.path,
                line |-> call.line, index |-> call.index,
                result |-> [ok |-> TRUE,
                            val |-> apply_format(call.format, call.path, call.line,
                                                 call.index)]]
    /\ CallUnchanged

NextApplyFormat == Call_apply_format

SpecApplyFormat == InitApplyFormat /\ [][NextApplyFormat]_vars

\* the text the named group g took in the first match of re in s, empty
\* when the pattern has no such group
GroupText(re, s, g) ==
    LET caps == Regex_named_captures(re, s)
        hit == {k \in DOMAIN caps : caps[k].group = g}
    IN  IF hit = {} THEN <<>>
        ELSE LET k == CHOOSE k \in hit : TRUE
             IN  Slice(s, caps[k].start, caps[k].end)

\* s is the decimal text of n
IsDecimalOf(s, n) ==
    /\ parse_usize(s).ok
    /\ parse_usize(s).val = n
    /\ (Len(s) = 1 \/ s[1] # "0")

FormatMatches == call.format # NoFormat /\ Regex_is_match(call.format, call.line)

LogLine_eq(a, b) ==
    /\ a.index = b.index
    /\ a.date = b.date
    /\ a.timestamp = b.timestamp
    /\ a.app = b.app
    /\ a.severity = b.severity
    /\ a.function = b.function
    /\ a.payload = b.payload
    /\ a.color = b.color

\* impl Ord for LogLine
LogLine_cmp(a, b) ==
    LET index == parse_usize(a.index)
        other == parse_usize(b.index)
    IN  IF index.ok /\ other.ok
        THEN IF index.val < other.val THEN "Less"
             ELSE IF index.val = other.val THEN "Equal"
             ELSE "Greater"
        ELSE "Equal"

\* impl PartialOrd for LogLine
LogLine_partial_cmp(a, b) ==
    LET index == parse_usize(a.index)
        other == parse_usize(b.index)
    IN  IF index.ok /\ other.ok
        THEN IF index.val < other.val THEN "Less"
             ELSE IF index.val = other.val THEN "Equal"
             ELSE "Greater"
        ELSE "None"

\* records as the consumer makes them: a source id, a decimal index, fields
ComparedRecords ==
    {[EmptyLine EXCEPT !.log = s, !.index = i, !.payload = p, !.color = c] :
        s \in Sources, i \in {<<"0">>, <<"2">>, <<"1", "0">>},
        p \in {<<>>, <<"y">>}, c \in {NoColor, <<7, 8, 9>>}}

InitCompare ==
    /\ InitPipeline({}, [s \in Sources |-> 0])
    /\ \E a \in ComparedRecords : \E b \in ComparedRecords :
          call = [pc |-> "ready", a |-> a, b |-> b]

CompareCall(pc, result) ==
    /\ call.pc = "ready"
    /\ call' = [pc |-> pc, a |-> call.a, b |-> call.b, result |-> result]
    /\ CallUnchanged

\* a == b
Call_eq == CompareCall("eq", LogLine_eq(call.a, call.b))

\* a.cmp(&b)
Call_cmp == CompareCall("cmp", LogLine_cmp(call.a, call.b))

\* a.partial_cmp(&b)
Call_partial_cmp == CompareCall("partial_cmp", LogLine_partial_cmp(call.a, call.b))

NextCompare == Call_eq \/ Call_cmp \/ Call_partial_cmp

SpecCompare == InitCompare /\ [][NextCompare]_vars

\* order of two numbers
OrderOf(m, n) == IF m < n THEN "Less" ELSE IF m = n THEN "Equal" ELSE "Greater"

\* C28: two LogLine records compare equal iff their eight text fields (log,
\* index, date, timestamp, app, severity, function, payload) and their color
\* are equal, and records are ordered by the numeric value of index
C28_EqualityAndOrder ==
    /\ call.pc = "eq" => (call.result <=> call.a = call.b)
    /\ call.pc \in {"cmp", "partial_cmp"} =>
          call.result = OrderOf(parse_usize(call.a.index).val,
                                parse_usize(call.b.index).val)

(***************************************************************************)
(* The end of the wait of a replay thread                                  *)
(***************************************************************************)

\* the raw lines of the batch the consumer holds
ConsumerLines ==
    IF cons.pc = "store" THEN cons.lines
    ELSE [i \in 1..Len(cons.elements) |-> cons.elements[i].line]

\* the batch replay thread t has enqueued for the source at the head of its
\* list is still in the queue, or in the hands of the consumer, which has
\* not yet notified its last chunk
ReplayedBatchPending(t) ==
    LET s == Head(toggles[t].logs)
        lines == toggles[t].lines
    IN  \/ \E k \in DOMAIN queue : queue[k].path = s /\ queue[k].lines = lines
        \/ cons.pc # "idle" /\ cons.path = s /\ ConsumerLines = lines

FinishedAfterCommit ==
    \A t \in 1..MaxToggles :
        (SendsFilterFinished(t) /\ toggles[t].pc = "wait") => ~ReplayedBatchPending(t)

\* C29: FilterFinished for a source is broadcast only after the consumer has
\* committed the replayed batch of that source to the filtered log; a
\* NewLines event of another batch does not end the wait of the replay thread
C29_FinishedAfterCommit == [][FinishedAfterCommit]_vars

(***************************************************************************)
(* Replay of a source that has no raw-line buffer yet                      *)
(***************************************************************************)

\* replay thread t takes the extract_lines step for a source that add_log
\* has registered and that never had a line appended
ExtractsWithoutBuffer(t) ==
    /\ t \in DOMAIN toggles
    /\ toggles[t].pc = "extract"
    /\ Head(toggles[t].logs) \in registered
    /\ ~raw_lines[Head(toggles[t].logs)].present
    /\ (toggles'[t].pc # "extract" \/ toggles'[t].logs # toggles[t].logs)

EmptyBatchOfNewSource ==
    \A t \in 1..MaxToggles :
        ExtractsWithoutBuffer(t) =>
            /\ toggles'[t].pc \in {"extract", "done"}
            /\ SendsFilterFinished(t)
            /\ toggles'[t].logs = Tail(toggles[t].logs)

\* C30: toggle_filter treats an enabled source that add_log has registered
\* and that never had a line appended as an empty batch: extract_lines
\* returns no line without failing, FilterFinished is broadcast for the
\* source and the thread goes on to the remaining enabled sources
C30_EmptyBatchOfNewSource == [][EmptyBatchOfNewSource]_vars

(***************************************************************************)
(* The raw-line buffers of the log store, called on their own              *)
(***************************************************************************)

\* InMemmoryLogStore::extract_lines: w.get_mut(log_id).unwrap() fails when
\* the source has no buffer; otherwise the buffer is taken and left empty
LogStore_extract_lines(rl, log_id) ==
    IF ~rl[log_id].present THEN Panicked
    ELSE Returned([lines |-> rl[log_id].lines,
                   store |-> [rl EXCEPT ![log_id].lines = <<>>]])

\* the batches handed to add_lines
StoreBatches == {<<>>, <<"a">>, <<"b", "c">>}

\* InMemmoryLogStore::new: no buffer; h_end is the end of the range the last
\* add_lines on a source returned, 0 again once the buffer was extracted
InitStoreCall ==
    /\ InitPipeline({}, [s \in Sources |-> 0])
    /\ call = [pc |-> "ready",
               raw_lines |-> [s \in Sources |-> [lines |-> <<>>, present |-> FALSE]],
               h_end |-> [s \in Sources |-> 0], n |-> 0]

\* log_store.add_lines(&log_id, &lines)
Call_add_lines ==
    /\ call.n < MaxStoreCalls
    /\ \E s \in Sources : \E lines \in StoreBatches :
         \E range \in {LogStore_add_lines_range(call.raw_lines, s, lines)} :
            call' = [pc |-> "add_lines", log_id |-> s, lines |-> lines,
                     raw_lines |-> LogStore_add_lines(call.raw_lines, s, lines),
                     result |-> range,
                     h_end |-> [call.h_end EXCEPT ![s] = range.end],
                     n |-> call.n + 1]
    /\ CallUnchanged

\* log_store.extract_lines(&log_id)
Call_extract_lines ==
    /\ call.n < MaxStoreCalls
    /\ \E s \in Sources :
         \E res \in {LogStore_extract_lines(call.raw_lines, s)} :
            call' = [pc |-> "extract_lines", log_id |-> s,
                     raw_lines |-> IF res.panicked THEN call.raw_lines ELSE res.val.store,
                     result |-> res,
                     h_end |-> [call.h_end EXCEPT ![s] = 0],
                     n |-> call.n + 1]
    /\ CallUnchanged

NextStoreCall == Call_add_lines \/ Call_extract_lines

SpecStoreCall == InitStoreCall /\ [][NextStoreCall]_vars

StoreStep(pc) == call'.pc = pc /\ call'.n = call.n + 1

OthersUnchanged ==
    \A o \in Sources \ {call'.log_id} : call'.raw_lines[o] = call.raw_lines[o]

\* add_lines returns the range that starts where the previous one on the
\* source ended (at 0 after an extract_lines) and has the batch's length
AddLinesRange ==
    StoreStep("add_lines") =>
        /\ call'.result.start = call.h_end[call'.log_id]
        /\ call'.result.end = call'.result.start + Len(call'.lines)
        /\ call'.raw_lines[call'.log_id].lines
              = call.raw_lines[call'.log_id].lines \o call'.lines
        /\ OthersUnchanged

\* extract_lines returns the whole buffer in order and leaves it empty
ExtractLinesAll ==
    StoreStep("extract_lines") =>
        /\ ~call'.result.panicked
        /\ call'.result.val.lines = call.raw_lines[call'.log_id].lines
        /\ call'.raw_lines[call'.log_id].lines = <<>>
        /\ OthersUnchanged

\* the same for a source that has a buffer
ExtractLinesOfBuffer ==
    (StoreStep("extract_lines") /\ call.raw_lines[call'.log_id].present) =>
        /\ ~call'.result.panicked
        /\ call'.result.val.lines = call.raw_lines[call'.log_id].lines
        /\ call'.raw_lines[call'.log_id].lines = <<>>
        /\ OthersUnchanged

StoreWithBuffers == [][AddLinesRange /\ ExtractLinesOfBuffer]_vars

\* C31: for any sequence of add_lines and extract_lines calls on a source,
\* the ranges of successive add_lines calls are contiguous and do not
\* overlap, each of the batch's length; extract_lines returns the whole
\* buffer in order and leaves it empty, the next add_lines starting at 0;
\* and no call on a source changes the buffer of another source
C31_ContiguousRanges == [][AddLinesRange /\ ExtractLinesAll]_vars

(***************************************************************************)
(* Order of the records of one batch                                       *)
(***************************************************************************)

RECURSIVE ConcatChunks(_, _)
\* the chunks k, k + 1, ... of the elements, one after the other
ConcatChunks(elements, k) ==
    IF k > NumChunks(Len(elements)) THEN <<>>
    ELSE Chunk(elements, k) \o ConcatChunks(elements, k + 1)

\* the consumer holds a batch it has paired with its indexes
HoldsBatch == cons.pc \in {"map", "add_lines", "add_search_lines", "notify"}

\* the chunks are not empty and cover every line of the batch once
ChunksCoverBatch ==
    HoldsBatch =>
        /\ ChunkSize(Len(cons.elements)) > 0
        /\ Len(cons.results) = NumChunks(Len(cons.elements))
        /\ \A k \in DOMAIN cons.results : Chunk(cons.elements, k) # <<>>
        /\ ConcatChunks(cons.elements, 1) = cons.elements

\* the records added are records of chunk k, in ascending index order
RecordsOfChunk(added, k) ==
    LET ch == Chunk(cons.elements, k)
    IN  /\ \A i \in DOMAIN added :
              \E j \in DOMAIN ch : parse_usize(added[i].index).val = ch[j].index
        /\ \A i \in DOMAIN added : \A j \in DOMAIN added :
              i < j => parse_usize(added[i].index).val < parse_usize(added[j].index).val

\* the k-th store into a log made for a batch stores records of chunk k
CommitsInChunkOrder ==
    /\ (cons.pc = "add_lines" /\ cons'.pc # "add_lines") =>
          /\ Len(log') >= Len(log)
          /\ SubSeq(log', 1, Len(log)) = log
          /\ RecordsOfChunk(SubSeq(log', Len(log) + 1, Len(log')), cons.next)
    /\ (cons.pc = "add_search_lines" /\ cons'.pc # "add_search_lines") =>
          /\ Len(search_log') >= Len(search_log)
          /\ SubSeq(search_log', 1, Len(search_log)) = search_log
          /\ RecordsOfChunk(SubSeq(search_log', Len(search_log) + 1, Len(search_log')),
                            cons.next)
          /\ cons'.next = cons.next + 1

LineOfRecord(r) ==
    IF r.severity = <<>> THEN r.payload ELSE r.severity \o <<" ">> \o r.payload

\* rank of a line among the lines the runners of s have sent (the lines of a
\* file of the model differ from one another)
SentRank(s, line) == CHOOSE i \in 1..Len(h_sent[s]) : h_sent[s][i] = line

\* the lines are in the order in which the runners of s sent them
InSentOrder(s, lines) ==
    /\ \A i \in DOMAIN lines : \E k \in 1..Len(h_sent[s]) : h_sent[s][k] = lines[i]
    /\ \A i \in DOMAIN lines : \A j \in DOMAIN lines :
          i < j => SentRank(s, lines[i]) <= SentRank(s, lines[j])

\* the lines of the records of s in the filtered log, in log order
CommittedLines(s) ==
    LET recs == SelectSeq(log, LAMBDA r : r.log = s)
    IN  [i \in 1..Len(recs) |-> LineOfRecord(recs[i])]

\* C33: across the batches a source has sent, the order in which their
\* records are committed to the filtered log and the order of their lines in
\* the raw-line buffer of the source are the order in which the runner sent
\* them, also when toggle_filter replays the source between or during sends
C33_SentOrderKept ==
    \A s \in registered :
        /\ InSentOrder(s, raw_lines[s].lines)
        /\ InSentOrder(s, CommittedLines(s))

(***************************************************************************)
(* Runners of a source under toggle_source                                 *)
(***************************************************************************)

\* the runner threads of s that have not left run
ActiveRunners(s) == {r \in 1..MaxRunners : runners[s][r].pc # "exited"}

\* the runners of s inside the loop of run: past the test of the flag, and
\* not on their way out
LoopingRunners(s) ==
    {r \in 1..MaxRunners : runners[s][r].pc \notin {"exited", "check", "restore"}}

\* every runner of s has reacted to the cancellation flag: the flag is set
\* again and no runner is about to test it for the first time or to leave
RunnersSettled(s) ==
    /\ src_enabled[s]
    /\ \A r \in 1..MaxRunners : runners[s][r].pc \notin {"check", "restore"}

\* C34: for any sequence of toggle_source calls on a source, at most one
\* runner of the source is active at any time, and once the runners have
\* reacted to the cancellation flag the enabled flag of the log store is
\* true iff exactly one runner of the source is active
C34_OneRunner ==
    \A s \in registered :
        /\ Cardinality(LoopingRunners(s)) <= 1
        /\ (ui.pc = "idle" /\ RunnersSettled(s)) =>
              (st_enabled[s] <=> Cardinality(ActiveRunners(s)) = 1)

(***************************************************************************)
(* The query behind the search log                                         *)
(***************************************************************************)

\* C35: in every reachable state, a search log that is not empty comes with
\* a stored search query that compiles, which is what get_search_lines and
\* get_search_lines_containing rely on when they unwrap the query
C35_SearchLogHasQuery ==
    search_log # <<>> => (search_query.some /\ Regex_new_ok(search_query.q))

\* the search log holds records after an add_search call with a pattern
\* that does not compile
C35_Witness ==
    /\ search_log # <<>>
    /\ ui.pc = "idle"
    /\ Len(searches) < h_search_calls

(***************************************************************************)
(* format_search on patterns with several named groups                     *)
(***************************************************************************)

\* the spans of a column, one after the other, spell the start of its text
SpansLeftToRight(st, l) ==
    \A i \in 1..Len(Columns) :
        LET key == Columns[i]
            spans == IF key = "Log" THEN st.log
                     ELSE IF key = "Index" THEN st.index
                     ELSE IF key = "Date" THEN st.date
                     ELSE IF key = "Timestamp" THEN st.timestamp
                     ELSE IF key = "App" THEN st.app
                     ELSE IF key = "Severity" THEN st.severity
                     ELSE IF key = "Function" THEN st.function
                     ELSE st.payload
        IN  IsPrefix(unformat_groups(spans), LogLine_get(l, key))

\* C36: format_search never fails for a pattern that compiles and any
\* record, also with several named groups, nested named groups or groups
\* declared in another order than that of their matches; the spans of each
\* field are emitted from left to right and do not overlap
C36_FormatSearchNeverFails ==
    call.pc = "format_search" =>
        /\ ~call.panicked
        /\ SpansLeftToRight(call.result, call.line)

(***************************************************************************)
(* The position returned with a window                                     *)
(***************************************************************************)

\* C37: get_log_lines_containing and get_search_lines_containing on a sorted
\* log that is not empty, with n >= 2, return a slice that is not empty and
\* a position of the target that is an index into it, for every target,
\* also one smaller or larger than every index of the log
C37_PositionInWindow ==
    (ContainingCall /\ call.source # <<>> /\ call.b >= 2) =>
        /\ call.result.lines # <<>>
        /\ call.result.index < Len(call.result.lines)

(***************************************************************************)
(* terminal-ui: LazyStatefulTable, the lazy window over a log.  The source *)
(* is the log of the analysis store, whose record of rank k has index k;   *)
(* the window holds the indexes of its records.                            *)
(***************************************************************************)

\* the numbers a usize wraps around (2^64 in the program)
UsizeModulus == 2^20

\* usize::overflowing_sub(a, b).0
overflowing_sub(a, b) == (a - b + UsizeModulus) % UsizeModulus

\* the source of n records
SourceOf(n) == [k \in 1..n |-> k - 1]

\* LazySource::source(from, to): get_log_lines / get_search_lines
LazySource_source(n, from, to) == AnalysisStore_get_lines(SourceOf(n), from, to)

\* LazySource::source_elements_containing(index, quantity):
\* get_log_lines_containing / get_search_lines_containing
LazySource_source_elements_containing(n, index, quantity) ==
    LET w == find_rolling_window([k \in 1..n |-> IndexedLine(k - 1)],
                                 IndexedLine(index), quantity)
    IN  [lines |-> [k \in 1..Len(w.lines) |-> parse_usize(w.lines[k].index).val],
         offset |-> w.offset, index |-> w.index]

NoSelection == [some |-> FALSE]
Selection(i) == [some |-> TRUE, i |-> i]

\* Area::current_area(i, elements)
Area_current_area(i, elements) ==
    LET low == overflowing_sub(elements \div 2, ROOM)
        high == elements \div 2 + ROOM
    IN  IF i < low THEN "Below"
        ELSE IF low <= i /\ i <= high THEN "Inside"
        ELSE IF i > high THEN "Above"
        ELSE "Below"

\* the outcome of a method: the table it leaves and the value it returns
TableResult(items, offset, selected, ret) ==
    [panicked |-> FALSE,
     val |-> [items |-> items, offset |-> offset, selected |-> selected],
     ret |-> ret]

\* state.selected().unwrap_or_default()
unwrap_or_default(selected) == IF selected.some THEN selected.i ELSE 0

\* LazyStatefulTable::new(source)
LazyTable_new(n) ==
    [items |-> LazySource_source(n, 0, CAPACITY).val, offset |-> 0,
     selected |-> NoSelection]

\* LazyStatefulTable::reload
LazyTable_reload(t, n) ==
    LET got == LazySource_source(n, t.offset, CAPACITY)
    IN  IF got.panicked THEN Panicked
        ELSE TableResult(got.val, t.offset,
                         IF t.selected.some
                         THEN Selection(Min(t.selected.i,
                                            IF got.val # <<>> THEN Len(got.val) - 1 ELSE 0))
                         ELSE NoSelection,
                         0)

\* LazyStatefulTable::navigate_to(index)
LazyTable_navigate_to(t, n, index) ==
    LET got == LazySource_source_elements_containing(n, index, CAPACITY)
    IN  TableResult(got.lines, got.offset, Selection(got.index), 0)

\* LazyStatefulTable::clear
LazyTable_clear(t) == TableResult(<<>>, t.offset, NoSelection, 0)

\* the items of the table once an empty table has been filled
FilledItems(t, n) ==
    IF t.items = <<>> THEN LazySource_source(n, 0, CAPACITY).val ELSE t.items

\* Stateful::next
LazyTable_next(t, n) ==
    LET items == FilledItems(t, n)
        len == Len(items)
    IN  IF items = <<>> THEN TableResult(items, t.offset, t.selected,
                                         unwrap_or_default(t.selected))
        ELSE IF ~t.selected.some THEN TableResult(items, t.offset, Selection(0), 0)
        ELSE LET i == t.selected.i
             IN  IF Area_current_area(i, len) \in {"Below", "Inside"}
                 THEN LET j == IF i + 1 < len THEN i + 1 ELSE i
                      IN  TableResult(items, t.offset, Selection(j), j)
                 ELSE LET last_element == len + t.offset
                          new_data == LazySource_source(n, last_element,
                                                        last_element + ROOM).val
                          received_elements == Len(new_data)
                          j == i - received_elements + (IF i + 1 < len THEN 1 ELSE 0)
                      IN  IF received_elements > len
                          THEN Panicked
                          ELSE TableResult(SubSeq(items, received_elements + 1, len)
                                              \o new_data,
                                           t.offset + received_elements,
                                           Selection(j), j)

\* Stateful::previous
LazyTable_previous(t, n) ==
    LET items == FilledItems(t, n)
        len == Len(items)
    IN  IF items = <<>> THEN TableResult(items, t.offset, t.selected,
                                         unwrap_or_default(t.selected))
        ELSE IF ~t.selected.some THEN TableResult(items, t.offset, Selection(0), 0)
        ELSE LET i == t.selected.i
             IN  IF Area_current_area(i, len) \in {"Above", "Inside"}
                 THEN LET j == IF i > 0 THEN i - 1 ELSE i
                      IN  TableResult(items, t.offset, Selection(j), j)
                 ELSE LET initial_element == IF t.offset > ROOM THEN t.offset - ROOM ELSE 0
                          new_data == LazySource_source(n, initial_element, t.offset).val
                          received_elements == Len(new_data)
                          selected == i + received_elements - (IF i > 0 THEN 1 ELSE 0)
                      IN  IF received_elements = 0
                          THEN TableResult(items, t.offset, Selection(selected), selected)
                          ELSE IF received_elements > len THEN Panicked
                          ELSE TableResult(new_data
                                              \o SubSeq(items, 1, len - received_elements),
                                           t.offset - received_elements,
                                           Selection(selected), selected)

\* the window a forward slide left behind, until something other than a
\* step of the selection changes the window
NoSlide == [some |-> FALSE]

InitLazyTable ==
    /\ InitPipeline({}, [s \in Sources |-> 0])
    /\ \E n \in 0..MaxSourceLen :
          call = [pc |-> "ready", n |-> n, t |-> LazyTable_new(n), op |-> "new",
                  slid |-> NoSlide, cur |-> 0, nxt |-> 0]

\* the table after a method that ran to its end, or the panic that ended it
TableCall(op, r, slid) ==
    /\ call.pc = "ready"
    /\ call' = IF r.panicked
               THEN [call EXCEPT !.pc = "panicked", !.op = op]
               ELSE [call EXCEPT !.op = op, !.t = r.val,
                                 !.slid = slid]
    /\ CallUnchanged

\* whether the method changed the window itself
Slides(t, r) == ~r.panicked /\ (r.val.items # t.items \/ r.val.offset # t.offset)

\* the log grows by one record
SourceGrows ==
    /\ call.pc = "ready"
    /\ call.n < MaxSourceLen
    /\ call' = [call EXCEPT !.n = call.n + 1, !.op = "grow"]
    /\ CallUnchanged

Call_next ==
    \E r \in {LazyTable_next(call.t, call.n)} :
        TableCall("next", r,
                  IF Slides(call.t, r) /\ call.t.items # <<>>
                  THEN [some |-> TRUE, items |-> call.t.items, offset |-> call.t.offset]
                  ELSE IF Slides(call.t, r) THEN NoSlide ELSE call.slid)

Call_previous ==
    \E r \in {LazyTable_previous(call.t, call.n)} :
        TableCall("previous", r, IF Slides(call.t, r) THEN NoSlide ELSE call.slid)

Call_reload ==
    \E r \in {LazyTable_reload(call.t, call.n)} : TableCall("reload", r, NoSlide)

Call_navigate_to ==
    \E index \in 0..MaxSourceLen :
        \E r \in {LazyTable_navigate_to(call.t, call.n, index)} :
            TableCall("navigate_to", r, NoSlide)

Call_clear ==
    \E r \in {LazyTable_clear(call.t)} : TableCall("clear", r, NoSlide)

\* navigate_to_bottom: the two calls of next before the loop
Call_navigate_to_bottom ==
    /\ call.pc = "ready"
    /\ \E r1 \in {LazyTable_next(call.t, call.n)} :
          IF r1.panicked
          THEN call' = [call EXCEPT !.pc = "panicked", !.op = "navigate_to_bottom"]
          ELSE \E r2 \in {LazyTable_next(r1.val, call.n)} :
                  call' = IF r2.panicked
                          THEN [call EXCEPT !.pc = "panicked",
                                            !.op = "navigate_to_bottom"]
                          ELSE [call EXCEPT !.pc = "bottom",
                                            !.op = "navigate_to_bottom", !.t = r2.val,
                                            !.slid = NoSlide,
                                            !.cur = r1.ret, !.nxt = r2.ret]
    /\ CallUnchanged

\* navigate_to_bottom: one turn of the loop
Bottom_Step ==
    /\ call.pc = "bottom"
    /\ call.cur # call.nxt
    /\ \E r \in {LazyTable_next(call.t, call.n)} :
          call' = IF r.panicked
                  THEN [call EXCEPT !.pc = "panicked"]
                  ELSE [call EXCEPT !.t = r.val, !.cur = call.nxt, !.nxt = r.ret]
    /\ CallUnchanged

\* navigate_to_bottom: the loop ends
Bottom_Return ==
    /\ call.pc = "bottom"
    /\ call.cur = call.nxt
    /\ call' = [call EXCEPT !.pc = "ready", !.op = "bottom", !.cur = 0, !.nxt = 0]
    /\ CallUnchanged

NextLazyTable ==
    \/ SourceGrows
    \/ Call_next
    \/ Call_previous
    \/ Call_reload
    \/ Call_navigate_to
    \/ Call_clear
    \/ Call_navigate_to_bottom
    \/ Bottom_Step
    \/ Bottom_Return

SpecLazyTable == InitLazyTable /\ [][NextLazyTable]_vars

\* the loop of navigate_to_bottom is never starved
FairLazyTable == SpecLazyTable /\ WF_vars(Bottom_Step) /\ WF_vars(Bottom_Return)

\* items is the slice of the source that starts at offset
ItemsAreSlice(t, n) ==
    /\ t.offset + Len(t.items) <= n
    /\ \A k \in 1..Len(t.items) : t.items[k] = t.offset + k - 1

\* a selection of a non-empty table is a row of the table
SelectionInItems(t) ==
    (t.selected.some /\ t.items # <<>>) => t.selected.i < Len(t.items)

\* C38: over a source that only grows, after any sequence of next, previous,
\* reload, navigate_to and clear the items of the lazy window are the
\* contiguous slice source[offset, offset + items.len()), there are at most
\* CAPACITY of them, a selection of a non-empty window is smaller than
\* items.len(), and no operation fails.
C38_WindowIsSlice ==
    /\ call.pc # "panicked"
    /\ call.pc = "ready" =>
          /\ ItemsAreSlice(call.t, call.n)
          /\ Len(call.t.items) <= CAPACITY
          /\ SelectionInItems(call.t)

\* the method changed neither the items nor the offset of the window
WindowKept == call'.t.items = call.t.items /\ call'.t.offset = call.t.offset

\* a call of next or previous on a filled table with a selection
StepFrom(op, area) ==
    /\ call.pc = "ready" /\ call'.pc \in {"ready", "panicked"} /\ call'.op = op
    /\ call'.n = call.n
    /\ call.t.items # <<>> /\ call.t.selected.some
    /\ Area_current_area(call.t.selected.i, Len(call.t.items)) \in area

\* next in the Below or Inside area fetches nothing and moves the selection
\* one row down unless it is on the last item
NextInsideKeepsWindow ==
    StepFrom("next", {"Below", "Inside"}) =>
        /\ call'.pc = "ready"
        /\ WindowKept
        /\ call'.t.selected =
              Selection(IF call.t.selected.i + 1 < Len(call.t.items)
                        THEN call.t.selected.i + 1 ELSE call.t.selected.i)

\* the number of elements of the source after the window
Remaining(t, n) == IF n > t.offset + Len(t.items) THEN n - (t.offset + Len(t.items)) ELSE 0

\* next in the Above area slides the window forward by the elements it
\* received, at most ROOM, and keeps its length
NextAboveSlidesForward ==
    StepFrom("next", {"Above"}) =>
        \E r \in {Min(ROOM, Remaining(call.t, call.n))} :
            /\ call'.pc = "ready"
            /\ call'.t.offset = call.t.offset + r
            /\ Len(call'.t.items) = Len(call.t.items)
            /\ \A k \in 1..(Len(call.t.items) - r) :
                  call'.t.items[k] = call.t.items[k + r]

\* previous in the Below area slides the window back by at most ROOM
PreviousBelowSlidesBack ==
    StepFrom("previous", {"Below"}) =>
        \E r \in {Min(ROOM, call.t.offset)} :
            /\ call'.pc = "ready"
            /\ call'.t.offset = call.t.offset - r
            /\ Len(call'.t.items) = Len(call.t.items)
            /\ \A k \in 1..(Len(call.t.items) - r) :
                  call'.t.items[k + r] = call.t.items[k]

\* a backward slide that follows a forward slide, with nothing but steps of
\* the selection in between
SlidesBackAfterForward ==
    /\ StepFrom("previous", {"Below"})
    /\ call.slid.some
    /\ ~WindowKept

\* ... gives back the window the forward slide started from
BackwardRestoresWindow ==
    SlidesBackAfterForward =>
        /\ call'.t.items = call.slid.items
        /\ call'.t.offset = call.slid.offset

\* C39: next in the Below or Inside area fetches nothing, leaves items and
\* offset unchanged and moves the selection one step down unless it is on the
\* last item; next in the Above area fetches up to ROOM following elements
\* and slides the window forward by the number received, keeping its length;
\* previous in the Below area slides it back by up to ROOM, so a forward
\* slide followed by a backward slide restores the original window.
C39_SlidesRestoreWindow ==
    [][/\ NextInsideKeepsWindow
       /\ NextAboveSlidesForward
       /\ PreviousBelowSlidesBack
       /\ BackwardRestoresWindow]_vars

\* navigate_to_bottom returns, on a source that has a last element
BottomReturns == call.pc = "bottom" /\ call'.pc = "ready" /\ call.n > 0

\* the selected item is the last element of the source
SelectedIsLast(t, n) ==
    /\ t.selected.some
    /\ t.offset + t.selected.i = n - 1

\* C40: navigate_to_bottom terminates for every finite source and every
\* starting window and selection, and when it returns the selected item is
\* the last element of the source (offset + selection = source length - 1),
\* for every number of elements remaining beyond the window.
C40_BottomReached ==
    /\ (call.pc = "bottom") ~> (call.pc = "ready")
    /\ [][BottomReturns => SelectedIsLast(call'.t, call'.n)]_vars

=============================================================================
